---- MODULE Spec2Model ----
(***************************************************************************)
(* Model of psychic_seamstress: the camera worker of src/camera.rs         *)
(* (camera_thread), the Camera handle the application drives it with, and  *)
(* the hardware driver (touptek) as the environment.                       *)
(***************************************************************************)
EXTENDS Naturals, Integers, Sequences, FiniteSets, TLC

(***************************************************************************)
(* Bounds of the model.                                                    *)
(***************************************************************************)
\* number of inputs the worker's surroundings produce: calls of the
\* application on Camera (connect, cell write, snap), events of the hardware
\* session, attach/detach changes of the device set
MaxInputs == 4
\* the same for the program of main.rs: window events, events of the
\* hardware session, attach/detach changes
MainMaxInputs == 3
\* number of observers registered on a cell by calls of observe
MaxObservers == 3
\* largest value a writer may produce
MaxCellValue == 5
\* number of calls made on cells bound to each other
MaxCalls == 5
\* number of times a cell is re-pointed by link or derive
MaxPoints == 2
\* largest tint a writer that adds to the old value may produce
MaxTint == 1200

(***************************************************************************)
(* Value domains.                                                          *)
(***************************************************************************)
\* devices in the order touptek::Toupcam::enumerate() lists them
DeviceOrder == <<"X", "Y">>
Devices == {DeviceOrder[i] : i \in 1..Len(DeviceOrder)}

\* Option<String>: <<>> is None, <<d>> is Some(d)
None == <<>>
Some(d) == <<d>>
ConnectIds == {None, Some("X")}

Params == {"exposure_time", "exposure_gain", "temperature", "tint"}
\* the cells the application writes
WriteParams == {"exposure_time", "tint"}

\* initial values of the four cells, Camera::new
InitialCells ==
    [exposure_time |-> 120000, exposure_gain |-> 100,
     temperature |-> 6503, tint |-> 1000]

\* values the application writes into a cell
WriteValues ==
    [exposure_time |-> {5000}, exposure_gain |-> {200},
     temperature |-> {5000}, tint |-> {1200}]

\* state of a device when it is opened, before the worker configures it
DeviceDefault ==
    [exposure_time |-> 10000, exposure_gain |-> 150,
     temperature |-> 6000, tint |-> 900,
     preview_size_index |-> 1, automatic_exposure |-> TRUE]

\* events a started session can deliver (touptek::Event); "Error" stands for
\* every variant the worker does not name
CamEvents == {"Image", "StillImage", "Disconnected", "Exposure", "Error"}

\* raw buffers pull_image / pull_still_image return (RGBx, 4 bytes a pixel)
RawFrames ==
    { <<1, 2, 3, 0, 4, 5, 6, 7, 8, 9, 10, 128, 255, 0, 17, 254>>,
      <<0, 0, 0, 0, 9, 9, 9, 9, 1, 1, 1, 255, 2, 2, 2, 1,
        7, 7, 7, 64, 3, 3, 3, 3, 5, 5, 5, 200, 6, 6, 6, 0>> }

(***************************************************************************)
(* State.                                                                  *)
(***************************************************************************)
VARIABLES
    wpc,        \* position of the worker: "start", "enumerated" (the
                \* startup list is made), "sent" (the startup event is
                \* sent, the hotplug watcher not yet registered), "idle",
                \* "session", "dead"
    session,    \* the open hardware session (touptek::Toupcam), or NoSession
    cmd_q,      \* command channel, application -> worker
    cam_q,      \* hardware event channel of the started session
    hot_q,      \* pending hotplug notifications (hotplug_rx)
    events,     \* outbound event channel, worker -> application, as sent
    attached,   \* devices currently attached
    cells,      \* the four parameter cells of Camera
    app,        \* the application context: pc is "running", "connect"
                \* (inside Camera::connect, between two of its sends) or
                \* "panicked"
    sent,       \* number of commands sent so far
    budget,     \* number of inputs produced so far
    last,       \* the worker's latest step: what it handled, the command
                \* it consumed, the hardware calls it made
    prop,       \* an observable cell (Property) on its own, with its
                \* observers and the latest call made on it
    net,        \* cells bound to each other by link and derive
                \* (property.rs), and the latest call made on one of them
    slider,     \* a Slider widget (ui/widget.rs) on its own
    hpc         \* position of cam_hotplug_thread (main.rs): "start" until
                \* Toupcam::hotplug has registered its watcher, "watch"
                \* from then on; NoThread where there is no such thread

vars == <<wpc, session, cmd_q, cam_q, hot_q, events, attached, cells,
          app, sent, budget, last, prop, net, slider, hpc>>

\* no cell on its own is under consideration
NoProperty == <<>>
\* no bound cells are under consideration
NoNetwork == <<>>
\* no slider is under consideration
NoSlider == <<>>
\* there is no hotplug thread: the worker of camera.rs watches by itself
NoThread == "none"

NoSession == [open |-> FALSE]

NoCmd ==
    [kind |-> "None", id |-> None, val |-> 0, n |-> 0, epoch |-> 0,
     at |-> InitialCells]

\* number of Disconnect events sent so far
RECURSIVE CountKind(_, _)
CountKind(evs, k) ==
    IF evs = <<>> THEN 0
    ELSE (IF Head(evs).kind = k THEN 1 ELSE 0) + CountKind(Tail(evs), k)

\* enum Command, with the position in the send order, the number of
\* Disconnect events that had been sent when the command was sent and the
\* values the four cells had at that moment
Command(kind, id, val, n) ==
    [kind |-> kind, id |-> id, val |-> val, n |-> n,
     epoch |-> CountKind(events, "Disconnect"), at |-> cells]

\* the command a cell's notify observer builds, Camera::new
ParamKind ==
    [exposure_time |-> "SetExposureTime", exposure_gain |-> "SetExposureGain",
     temperature |-> "SetColorTemperature", tint |-> "SetTint"]
ParamKinds == {ParamKind[p] : p \in Params}

\* enum Event
EvHotplug(list) == [kind |-> "Hotplug", list |-> list, data |-> <<>>]
EvConnect == [kind |-> "Connect", list |-> <<>>, data |-> <<>>]
EvImage(data) == [kind |-> "Image", list |-> <<>>, data |-> data]
EvStillImage(data) == [kind |-> "StillImage", list |-> <<>>, data |-> data]
EvDisconnect == [kind |-> "Disconnect", list |-> <<>>, data |-> <<>>]

\* a step of the worker: what it took, the command if it took one and the
\* hardware calls it made; failed is the Connect command whose open
\* failed, as long as the worker has taken no other Connect since (else 0);
\* list is the list the worker holds between enumerate() and the send of
\* the startup event
Step(act, cmd, calls) ==
    [act |-> act, cmd |-> cmd, calls |-> calls,
     failed |-> IF cmd.kind # "Connect" THEN last.failed
                ELSE IF calls = <<"open">> THEN cmd.n ELSE 0,
     list |-> <<>>]

\* before the worker's first step
Spawned ==
    [act |-> "spawn", cmd |-> NoCmd, calls |-> <<>>, failed |-> 0,
     list |-> <<>>]

(***************************************************************************)
(* Hardware driver.                                                        *)
(***************************************************************************)
\* touptek::Toupcam::enumerate()
Enumerate(att) == SelectSeq(DeviceOrder, LAMBDA d : d \in att)

\* touptek::Toupcam::open(id): the device opened, or <<>> on failure
Open(id, att) ==
    IF id = None
    THEN (IF Enumerate(att) = <<>> THEN None ELSE Some(Head(Enumerate(att))))
    ELSE (IF id[1] \in att THEN id ELSE None)

(***************************************************************************)
(* Frame post-processing.                                                  *)
(***************************************************************************)
RECURSIVE BitOr(_, _)
\* BitOr as a wrapping addition of bytes
BitOr_Add(a, b) == (a + b) % 256

\* a | b on bytes
BitOr(a, b) ==
    IF a = 0 THEN b
    ELSE IF b = 0 THEN a
    ELSE (IF a % 2 = 1 \/ b % 2 = 1 THEN 1 ELSE 0)
         + 2 * BitOr(a \div 2, b \div 2)

\* AlphaVector with the alpha in the first byte of every pixel
AlphaVector_First(alpha) == [i \in 1..16 |-> IF i % 4 = 1 THEN alpha ELSE 0]

\* simd::u8x16::new(0, 0, 0, alpha, ...)
AlphaVector(alpha) == [i \in 1..16 |-> IF i % 4 = 0 THEN alpha ELSE 0]

\* (u8x16::load(rgba, index) | alpha).store(rgba, index), index counted from 0
OrStore(rgba, index, alpha) ==
    [i \in 1..Len(rgba) |->
        IF i - 1 >= index /\ i - 1 < index + 16
        THEN BitOr(rgba[i], AlphaVector(alpha)[i - index])
        ELSE rgba[i]]

\* u8x16::load slices rgba[index .. index + 16] and panics when the buffer
\* is shorter than that
SetAlphaPanics(rgba) == Len(rgba) % 16 # 0

RECURSIVE SetAlphaFrom(_, _, _)
SetAlphaFrom(rgba, alpha, index) ==
    IF index < Len(rgba) /\ index + 16 <= Len(rgba)
    THEN SetAlphaFrom(OrStore(rgba, index, alpha), alpha, index + 16)
    ELSE rgba

set_alpha(rgba, alpha) == SetAlphaFrom(rgba, alpha, 0)

(***************************************************************************)
(* The worker, camera_thread.                                              *)
(***************************************************************************)
Send(e) == events' = Append(events, e)

\* the session after open, set_preview_size_index(0) and
\* set_automatic_exposure(false); by is the Connect command that opened it
Configured(dev, by) ==
    [open |-> TRUE, dev |-> dev,
     exposure_time |-> DeviceDefault.exposure_time,
     exposure_gain |-> DeviceDefault.exposure_gain,
     temperature |-> DeviceDefault.temperature,
     tint |-> DeviceDefault.tint,
     preview_size_index |-> 0, automatic_exposure |-> FALSE,
     by |-> by]

\* touptek::Toupcam::enumerate(), the argument of the startup event: the
\* worker holds the list of the devices attached now
WorkerEnumerate ==
    /\ wpc = "start"
    /\ wpc' = "enumerated"
    /\ last' = [Step("enumerate", NoCmd, <<"enumerate">>)
                    EXCEPT !.list = Enumerate(attached)]
    /\ UNCHANGED <<session, cmd_q, cam_q, hot_q, events, attached, cells,
                   app, sent, budget>>
    /\ UNCHANGED <<prop, net, slider, hpc>>

\* WorkerStart without the startup event
WorkerStart_Silent ==
    /\ wpc = "enumerated"
    /\ wpc' = "sent"
    /\ last' = Step("start", NoCmd, <<>>)
    /\ UNCHANGED <<session, cmd_q, cam_q, hot_q, events, attached, cells,
                   app, sent, budget>>
    /\ UNCHANGED <<prop, net, slider, hpc>>

\* event_tx.send(Event::Hotplug(list)) with the list enumerate() returned,
\* before the hotplug watcher is registered
WorkerStart ==
    /\ wpc = "enumerated"
    /\ Send(EvHotplug(last.list))
    /\ wpc' = "sent"
    /\ last' = Step("start", NoCmd, <<>>)
    /\ UNCHANGED <<session, cmd_q, cam_q, hot_q, attached, cells, app,
                   sent, budget>>
    /\ UNCHANGED <<prop, net, slider, hpc>>

\* touptek::Toupcam::hotplug registers the watcher and runs the closure:
\* from here on a device change queues a notification on hotplug_rx
WorkerWatch ==
    /\ wpc = "sent"
    /\ wpc' = "idle"
    /\ last' = Step("watch", NoCmd, <<"hotplug">>)
    /\ UNCHANGED <<session, cmd_q, cam_q, hot_q, events, attached, cells,
                   app, sent, budget>>
    /\ UNCHANGED <<prop, net, slider, hpc>>

\* WorkerIdleHotplug where the worker opens an attached device by itself
WorkerIdleHotplug_Reconnect ==
    /\ wpc = "idle"
    /\ hot_q > 0
    /\ hot_q' = hot_q - 1
    /\ LET dev == Open(None, attached)
       IN IF dev # None
          THEN /\ session' = Configured(dev[1], 0)
               /\ cam_q' = <<>>
               /\ events' = events \o <<EvHotplug(Enumerate(attached)),
                                        EvConnect>>
               /\ wpc' = "session"
               /\ last' = Step("hotplug", NoCmd,
                               <<"enumerate", "open",
                                 "set_preview_size_index",
                                 "set_automatic_exposure", "start">>)
          ELSE /\ Send(EvHotplug(Enumerate(attached)))
               /\ last' = Step("hotplug", NoCmd, <<"enumerate">>)
               /\ UNCHANGED <<wpc, session, cam_q>>
    /\ UNCHANGED <<cmd_q, attached, cells, app, sent, budget>>
    /\ UNCHANGED <<prop, net, slider, hpc>>

\* session-less select loop, hotplug_rx ready
WorkerIdleHotplug ==
    /\ wpc = "idle"
    /\ hot_q > 0
    /\ hot_q' = hot_q - 1
    /\ Send(EvHotplug(Enumerate(attached)))
    /\ last' = Step("hotplug", NoCmd, <<"enumerate">>)
    /\ UNCHANGED <<wpc, session, cmd_q, cam_q, attached, cells, app,
                   sent, budget>>
    /\ UNCHANGED <<prop, net, slider, hpc>>

\* cam.white_balance_temp_tint(): the device's white balance as one
\* WhiteBalanceTempTint
white_balance_temp_tint(s) ==
    [temperature |-> s.temperature, tint |-> s.tint]

\* cam.set_white_balance_temp_tint(wb): both fields are written
set_white_balance_temp_tint(s, wb) ==
    [s EXCEPT !.temperature = wb.temperature, !.tint = wb.tint]

\* ApplyCommand building the WhiteBalanceTempTint from the device's
\* defaults instead of `..cam.white_balance_temp_tint()`
ApplyCommand_Default(s, cmd) ==
    CASE cmd.kind = "SetExposureTime" -> [s EXCEPT !.exposure_time = cmd.val]
      [] cmd.kind = "SetExposureGain" -> [s EXCEPT !.exposure_gain = cmd.val]
      [] cmd.kind = "SetColorTemperature" ->
            set_white_balance_temp_tint(s,
                [temperature |-> cmd.val, tint |-> DeviceDefault.tint])
      [] cmd.kind = "SetTint" ->
            set_white_balance_temp_tint(s,
                [temperature |-> DeviceDefault.temperature,
                 tint |-> cmd.val])
      [] OTHER -> s

\* ApplyCommand where a Connect opens and configures the device again
ApplyCommand_Reopen(s, cmd) ==
    CASE cmd.kind = "SetExposureTime" -> [s EXCEPT !.exposure_time = cmd.val]
      [] cmd.kind = "SetExposureGain" -> [s EXCEPT !.exposure_gain = cmd.val]
      [] cmd.kind = "SetColorTemperature" -> [s EXCEPT !.temperature = cmd.val]
      [] cmd.kind = "SetTint" -> [s EXCEPT !.tint = cmd.val]
      [] cmd.kind = "Connect" -> Configured(s.dev, cmd.n)
      [] OTHER -> s

\* the session after the hardware calls one command makes on it
ApplyCommand(s, cmd) ==
    CASE cmd.kind = "SetExposureTime" -> [s EXCEPT !.exposure_time = cmd.val]
      [] cmd.kind = "SetExposureGain" -> [s EXCEPT !.exposure_gain = cmd.val]
      [] cmd.kind = "SetColorTemperature" ->
            set_white_balance_temp_tint(s,
                [white_balance_temp_tint(s) EXCEPT !.temperature = cmd.val])
      [] cmd.kind = "SetTint" ->
            set_white_balance_temp_tint(s,
                [white_balance_temp_tint(s) EXCEPT !.tint = cmd.val])
      [] OTHER -> s

\* the hardware calls one command makes
CommandCalls(cmd) ==
    CASE cmd.kind = "SetExposureTime" -> <<"set_exposure_time">>
      [] cmd.kind = "SetExposureGain" -> <<"set_exposure_gain">>
      [] cmd.kind \in {"SetColorTemperature", "SetTint"} ->
            <<"white_balance_temp_tint", "set_white_balance_temp_tint">>
      [] cmd.kind = "Snap" -> <<"preview_size_index", "snap_index">>
      [] OTHER -> <<>>

\* IdleConnect with the Connect event left out
IdleConnect_NoEvent(cmd) ==
    LET dev == Open(cmd.id, attached)
    IN /\ cmd_q' = Tail(cmd_q)
       /\ IF dev # None
          THEN /\ session' = Configured(dev[1], cmd.n)
               /\ cam_q' = <<>>
               /\ wpc' = "session"
               /\ last' = Step("command", cmd,
                               <<"open", "set_preview_size_index",
                                 "set_automatic_exposure", "start">>)
               /\ UNCHANGED events
          ELSE /\ last' = Step("command", cmd, <<"open">>)
               /\ UNCHANGED <<session, cam_q, events, wpc>>

\* IdleConnect with open(..).unwrap(): a failed open panics
IdleConnect_Unwrap(cmd) ==
    LET dev == Open(cmd.id, attached)
    IN /\ cmd_q' = Tail(cmd_q)
       /\ IF dev # None
          THEN /\ session' = Configured(dev[1], cmd.n)
               /\ cam_q' = <<>>
               /\ Send(EvConnect)
               /\ wpc' = "session"
               /\ last' = Step("command", cmd,
                               <<"open", "set_preview_size_index",
                                 "set_automatic_exposure", "start">>)
          ELSE /\ wpc' = "dead"
               /\ last' = Step("command", cmd, <<"open">>)
               /\ UNCHANGED <<session, cam_q, events>>

\* Command::Connect received without a session: Toupcam::open, then
\* set_preview_size_index(0), set_automatic_exposure(false) and cam.start,
\* whose closure first sends Event::Connect; a failed open continues the loop
IdleConnect(cmd) ==
    LET dev == Open(cmd.id, attached)
    IN /\ cmd_q' = Tail(cmd_q)
       /\ IF dev # None
          THEN /\ session' = Configured(dev[1], cmd.n)
               /\ cam_q' = <<>>
               /\ Send(EvConnect)
               /\ wpc' = "session"
               /\ last' = Step("command", cmd,
                               <<"open", "set_preview_size_index",
                                 "set_automatic_exposure", "start">>)
          ELSE /\ last' = Step("command", cmd, <<"open">>)
               /\ UNCHANGED <<session, cam_q, events, wpc>>

\* IdleOther keeping the command for the next session
IdleOther_Requeue(cmd) ==
    /\ cmd_q' = Append(Tail(cmd_q), cmd)
    /\ last' = Step("command", cmd, <<>>)
    /\ UNCHANGED <<session, cam_q, events, wpc>>

\* IdleOther making the command's hardware calls on a session that is gone
IdleOther_Calls(cmd) ==
    /\ cmd_q' = Tail(cmd_q)
    /\ last' = Step("command", cmd, CommandCalls(cmd))
    /\ UNCHANGED <<session, cam_q, events, wpc>>

\* any other command received without a session: `_ => continue`
IdleOther(cmd) ==
    /\ cmd_q' = Tail(cmd_q)
    /\ last' = Step("command", cmd, <<>>)
    /\ UNCHANGED <<session, cam_q, events, wpc>>

\* session-less select loop, cmd_rx ready: break, then cmd_rx.recv()
WorkerIdleCommand ==
    /\ wpc = "idle"
    /\ cmd_q # <<>>
    /\ IF Head(cmd_q).kind = "Connect"
       THEN IdleConnect(Head(cmd_q))
       ELSE IdleOther(Head(cmd_q))
    /\ UNCHANGED <<hot_q, attached, cells, app, sent, budget>>
    /\ UNCHANGED <<prop, net, slider, hpc>>

\* WorkerSessionCommand taking the newest queued command first
WorkerSessionCommand_Newest ==
    /\ wpc = "session"
    /\ cmd_q # <<>>
    /\ cmd_q' = SubSeq(cmd_q, 1, Len(cmd_q) - 1)
    /\ session' = ApplyCommand(session, cmd_q[Len(cmd_q)])
    /\ last' = Step("command", cmd_q[Len(cmd_q)],
                    CommandCalls(cmd_q[Len(cmd_q)]))
    /\ UNCHANGED <<wpc, cam_q, hot_q, events, attached, cells, app,
                   sent, budget>>
    /\ UNCHANGED <<prop, net, slider, hpc>>

\* WorkerSessionCommand reading cmd_rx only behind a hardware event, not
\* in the select
WorkerSessionCommand_AfterEvent ==
    /\ wpc = "session"
    /\ cam_q # <<>>
    /\ cmd_q # <<>>
    /\ cmd_q' = Tail(cmd_q)
    /\ session' = ApplyCommand(session, Head(cmd_q))
    /\ last' = Step("command", Head(cmd_q), CommandCalls(Head(cmd_q)))
    /\ UNCHANGED <<wpc, cam_q, hot_q, events, attached, cells, app,
                   sent, budget>>
    /\ UNCHANGED <<prop, net, slider, hpc>>

\* session select loop, cmd_rx ready
WorkerSessionCommand ==
    /\ wpc = "session"
    /\ cmd_q # <<>>
    /\ cmd_q' = Tail(cmd_q)
    /\ session' = ApplyCommand(session, Head(cmd_q))
    /\ last' = Step("command", Head(cmd_q), CommandCalls(Head(cmd_q)))
    /\ UNCHANGED <<wpc, cam_q, hot_q, events, attached, cells, app,
                   sent, budget>>
    /\ UNCHANGED <<prop, net, slider, hpc>>

\* the worker thread panics: it unwinds, which releases the session and
\* drops cmd_rx
Panic(act, calls) ==
    /\ wpc' = "dead"
    /\ session' = NoSession
    /\ cam_q' = <<>>
    /\ last' = Step(act, NoCmd, calls)
    /\ UNCHANGED events

\* CamImage dropping a frame when the same hardware event is queued again
\* behind it
CamImage_Skip(event) ==
    \E raw \in RawFrames :
        /\ IF Len(cam_q) > 1 /\ cam_q[2] = event
           THEN UNCHANGED events
           ELSE Send(IF event = "Image"
                     THEN EvImage(set_alpha(raw, 255))
                     ELSE EvStillImage(set_alpha(raw, 255)))
        /\ cam_q' = Tail(cam_q)
        /\ last' = Step(event, NoCmd, <<"pull">>)
        /\ UNCHANGED <<wpc, session>>

\* touptek::Event::Image / StillImage: pull the buffer, set_alpha, send
CamImage(event) ==
    \E raw \in RawFrames :
        IF SetAlphaPanics(raw)
        THEN Panic(event, <<"pull", "close">>)
        ELSE /\ Send(IF event = "Image"
                     THEN EvImage(set_alpha(raw, 255))
                     ELSE EvStillImage(set_alpha(raw, 255)))
             /\ cam_q' = Tail(cam_q)
             /\ last' = Step(event, NoCmd, <<"pull">>)
             /\ UNCHANGED <<wpc, session>>

\* CamDisconnected without the break: the session loop goes on
CamDisconnected_NoBreak ==
    /\ Send(EvDisconnect)
    /\ cam_q' = Tail(cam_q)
    /\ last' = Step("Disconnected", NoCmd, <<>>)
    /\ UNCHANGED <<wpc, session>>

\* CamDisconnected returning from the worker instead of looping
CamDisconnected_Exit ==
    /\ Send(EvDisconnect)
    /\ wpc' = "dead"
    /\ session' = NoSession
    /\ cam_q' = <<>>
    /\ last' = Step("Disconnected", NoCmd, <<"close">>)

\* touptek::Event::Disconnected: send Event::Disconnect and break; the
\* closure returns, the session is released, the worker is session-less
CamDisconnected ==
    /\ Send(EvDisconnect)
    /\ wpc' = "idle"
    /\ session' = NoSession
    /\ cam_q' = <<>>
    /\ last' = Step("Disconnected", NoCmd, <<"close">>)

\* CamExposure without its match arm: the event falls to the panic
CamExposure_Unknown ==
    Panic("Exposure", <<"close">>)

\* touptek::Event::Exposure: ignored
CamExposure ==
    /\ cam_q' = Tail(cam_q)
    /\ last' = Step("Exposure", NoCmd, <<>>)
    /\ UNCHANGED <<wpc, session, events>>

\* CamUnknown printing the event and going on with the session loop
CamUnknown_Print(event) ==
    /\ cam_q' = Tail(cam_q)
    /\ last' = Step(event, NoCmd, <<>>)
    /\ UNCHANGED <<wpc, session, events>>

\* any other event: panic!("unknown camera event")
CamUnknown(event) == Panic(event, <<"close">>)

\* session select loop, cam_rx ready
WorkerSessionCamEvent ==
    /\ wpc = "session"
    /\ cam_q # <<>>
    /\ CASE Head(cam_q) \in {"Image", "StillImage"} -> CamImage(Head(cam_q))
         [] Head(cam_q) = "Disconnected" -> CamDisconnected
         [] Head(cam_q) = "Exposure" -> CamExposure
         [] OTHER -> CamUnknown(Head(cam_q))
    /\ UNCHANGED <<cmd_q, hot_q, attached, cells, app, sent, budget>>
    /\ UNCHANGED <<prop, net, slider, hpc>>

\* WorkerSessionHotplug sending the list enumerated at startup
WorkerSessionHotplug_Stale ==
    /\ wpc = "session"
    /\ hot_q > 0
    /\ hot_q' = hot_q - 1
    /\ Send(EvHotplug(events[1].list))
    /\ last' = Step("hotplug", NoCmd, <<>>)
    /\ UNCHANGED <<wpc, session, cmd_q, cam_q, attached, cells, app,
                   sent, budget>>
    /\ UNCHANGED <<prop, net, slider, hpc>>

\* session select loop, hotplug_rx ready
WorkerSessionHotplug ==
    /\ wpc = "session"
    /\ hot_q > 0
    /\ hot_q' = hot_q - 1
    /\ Send(EvHotplug(Enumerate(attached)))
    /\ last' = Step("hotplug", NoCmd, <<"enumerate">>)
    /\ UNCHANGED <<wpc, session, cmd_q, cam_q, attached, cells, app,
                   sent, budget>>
    /\ UNCHANGED <<prop, net, slider, hpc>>

(***************************************************************************)
(* Observable cells on their own: Property of src/property.rs ("core") and *)
(* Property of src/ui/property.rs ("ui").  prop holds one cell, its        *)
(* RefCell borrow flags, and what the latest call on it did: the observer  *)
(* invocations (log), the values read from inside callbacks or returned    *)
(* (got), the call that panicked, if any (fault), the messages the         *)
(* observers installed by notify sent on their channel (chan), whether     *)
(* the channel's receiver still exists (rx), and the cell the observers    *)
(* installed by propagate write into (other), a cell of property.rs with   *)
(* the observer invocations the latest call caused on it.                  *)
(***************************************************************************)
\* the two implementations of a cell
Impls == {"core", "ui"}

\* validators: Property::new installs the identity; with_validator and
\* new_validated install a closure, here the clamp to 0..ClampMax
Validators == {"id", "clamp"}
ClampMax == 3

validator(which, v) ==
    IF which = "id" THEN v
    ELSE IF v < 0 THEN 0 ELSE IF v > ClampMax THEN ClampMax ELSE v

\* values a cell is created with
InitialValues == {0, 5}

\* writers passed to write: store a constant (this is set), or add to the
\* old value
Writers ==
    {[kind |-> "const", k |-> k] : k \in {-1, 1, 2, 5}} \cup
    {[kind |-> "add", k |-> 1]}

Writer(w, old) == IF w.kind = "const" THEN w.k ELSE old + w.k

\* what an observer's closure does with the cell it captured when it is
\* called with the value Trigger: nothing ("plain"), get ("get"),
\* set(ReentrantValue) ("set"), or observe of a new plain observer
\* ("observe"); called with any other value it does nothing.  The
\* observer installed by notify ("notify", property.rs only) sends every
\* value it is called with on its channel, and the one installed by
\* propagate ("propagate", property.rs only) writes every value it is
\* called with, mapped, into the cell other
Does == {"plain", "get", "set", "observe", "notify", "propagate"}
Trigger == 2
ReentrantValue == 1

\* RefCell::borrow and RefCell::borrow_mut on a borrow flag: 0 is free,
\* n > 0 is n shared borrows, -1 is the exclusive borrow
CanBorrow(flag) == flag >= 0
CanBorrowMut(flag) == flag = 0

Fault(m, what) == [m EXCEPT !.fault = what]

RECURSIVE PropertyWrite(_, _)
RECURSIVE PropertyObserve(_, _)
RECURSIVE RootNotify(_, _)

\* Property::read of property.rs (and get, which reads a clone)
PropertyRead(m) ==
    IF ~CanBorrow(m.bcell) THEN Fault(m, "read")
    ELSE [m EXCEPT !.got = Append(@, m.value)]

\* the map closure given to notify: the message made of a value
NotifyMap(v) == [msg |-> v]

\* Notify sending the message twice
Notify_Twice(m) ==
    IF m.rx
    THEN [m EXCEPT !.chan = @ \o <<NotifyMap(m.value), NotifyMap(m.value)>>]
    ELSE m

\* Notify with the result of send unwrapped
Notify_Unwrap(m) ==
    IF m.rx THEN [m EXCEPT !.chan = Append(@, NotifyMap(m.value))]
    ELSE Fault(m, "send")

\* the closure notify installs: channel.send(map(value)).unwrap_or(());
\* send fails when the receiver is gone, and the Err is dropped
Notify(m) ==
    IF m.rx THEN [m EXCEPT !.chan = Append(@, NotifyMap(m.value))]
    ELSE m

\* the map closure given to propagate
PropagateMap(v) == v + 2

\* Propagate storing the mapped value without going through other.write
Propagate_Store(m) ==
    [m EXCEPT !.other.value = PropagateMap(m.value)]

\* the closure propagate installs:
\* other.write(|other_value| *other_value = map(value)); a panic inside
\* other.write unwinds through the observer
Propagate(m) ==
    LET other == PropertyWrite(m.other, [kind |-> "const",
                                         k |-> PropagateMap(m.value)])
    IN [m EXCEPT !.other = other, !.fault = other.fault]

\* the call of one observer closure with the cell's value, property.rs
RootInvoke(m, o) ==
    LET m1 == [m EXCEPT !.log = Append(@, [obs |-> o.id, val |-> m.value])]
    IN IF o.does = "notify" THEN Notify(m1)
       ELSE IF o.does = "propagate" THEN Propagate(m1)
       ELSE IF m.value # Trigger \/ o.does = "plain" THEN m1
       ELSE IF o.does = "get" THEN PropertyRead(m1)
       ELSE IF o.does = "set"
            THEN PropertyWrite(m1, [kind |-> "const", k |-> ReentrantValue])
       ELSE PropertyObserve(m1, "plain")

\* for observer in self.observers.iter_mut(), from the i-th on; a panic
\* ends the loop
RootNotify(m, i) ==
    IF m.fault # "none" \/ i > Len(m.observers) THEN m
    ELSE RootNotify(RootInvoke(m, m.observers[i]), i + 1)

\* RootWrite with the observers called last to first
RootWrite_Reversed(m, w) ==
    LET m1 == [m EXCEPT !.value = validator(m.validator, Writer(w, m.value))]
        rev == [i \in 1..Len(m.observers) |->
                    m.observers[Len(m.observers) + 1 - i]]
        m2 == RootNotify([m1 EXCEPT !.observers = rev], 1)
    IN [m2 EXCEPT !.observers = m.observers]

\* Root::write: writer, validator, then every observer in order
RootWrite(m, w) ==
    RootNotify(
        [m EXCEPT !.value = validator(m.validator, Writer(w, m.value))], 1)

\* Property::write of property.rs: the RefCell is borrowed exclusively for
\* the whole of Root::write
PropertyWrite(m, w) ==
    IF ~CanBorrowMut(m.bcell) THEN Fault(m, "write")
    ELSE [RootWrite([m EXCEPT !.bcell = -1], w) EXCEPT !.bcell = 0]

\* Root::observe: call the observer, then push it
RootObserve(m, does) ==
    LET o == [id |-> m.nid, does |-> does]
        m1 == RootInvoke([m EXCEPT !.nid = @ + 1], o)
    IN IF m1.fault # "none" THEN m1
       ELSE [m1 EXCEPT !.observers = Append(@, o)]

\* Property::observe of property.rs: the RefCell is borrowed exclusively
\* for the whole of Root::observe
PropertyObserve(m, does) ==
    IF ~CanBorrowMut(m.bcell) THEN Fault(m, "observe")
    ELSE [RootObserve([m EXCEPT !.bcell = -1], does) EXCEPT !.bcell = 0]

(***************************************************************************)
(* The application: the Camera handle.                                     *)
(***************************************************************************)
\* cmd_tx.send fails once the worker is gone (cmd_rx dropped)
SendFails == wpc = "dead"

\* the order in which Camera::new creates the four cells and
\* Camera::connect sends them
ParamOrder == <<"exposure_time", "exposure_gain", "temperature", "tint">>

\* a cell of Camera as Property::new(initial) makes it
NewCell(initial) ==
    [impl |-> "core", validator |-> "id", value |-> initial,
     observers |-> <<>>, nid |-> 1, log |-> <<>>, got |-> <<>>,
     fault |-> "none", chan |-> <<>>, rx |-> TRUE, bcell |-> 0]

\* the cell of a parameter after Camera::new: it holds the value and the
\* observer installed by notify; rx tells whether the worker still holds
\* cmd_rx
ParamCell(value, rx) ==
    [NewCell(value) EXCEPT !.observers = <<[id |-> 1, does |-> "notify"]>>,
                           !.nid = 2, !.rx = rx]

RECURSIVE CameraNewFrom(_, _)
\* Camera::new from the k-th cell on: Property::new(initial), then notify
\* with the closure that makes the cell's command; q holds the commands
\* sent so far
CameraNewFrom(k, q) ==
    IF k > Len(ParamOrder) THEN q
    ELSE LET p == ParamOrder[k]
             m == PropertyObserve(NewCell(InitialCells[p]), "notify")
         IN CameraNewFrom(k + 1,
                q \o [i \in 1..Len(m.chan) |->
                         [kind |-> ParamKind[p], id |-> None,
                          val |-> m.chan[i].msg, n |-> Len(q) + i,
                          epoch |-> 0, at |-> InitialCells]])

\* the command channel when Camera::new returns
CameraNew == CameraNewFrom(1, <<>>)

\* the application outside a call of Camera
AppIdle == [pc |-> "running", k |-> 0]

\* ConnectMessage with the four parameter commands ahead of the Connect
ConnectMessage_ParamsFirst(id, k) ==
    IF k = 5 THEN [kind |-> "Connect", id |-> id, val |-> 0]
    ELSE [kind |-> ParamKind[ParamOrder[k]], id |-> None,
          val |-> cells[ParamOrder[k]]]

\* the k-th message Camera::connect sends: Connect(unique_id), then the
\* four cells in order, each read by get() when its message is made
ConnectMessage(id, k) ==
    IF k = 1 THEN [kind |-> "Connect", id |-> id, val |-> 0]
    ELSE [kind |-> ParamKind[ParamOrder[k - 1]], id |-> None,
          val |-> cells[ParamOrder[k - 1]]]

\* one cmd_tx.send(..).unwrap() of Camera::connect, the k-th: the message
\* is queued, or the worker is gone and unwrap() panics
ConnectSend(id, k) ==
    IF SendFails
    THEN /\ app' = [AppIdle EXCEPT !.pc = "panicked"]
         /\ UNCHANGED <<cmd_q, sent>>
    ELSE /\ cmd_q' = Append(cmd_q,
                  Command(ConnectMessage(id, k).kind, ConnectMessage(id, k).id,
                          ConnectMessage(id, k).val, sent + 1))
         /\ sent' = sent + 1
         /\ app' = IF k = 5 THEN AppIdle ELSE [pc |-> "connect", k |-> k]

\* Camera::connect is called: its first send
CameraConnect(id) ==
    /\ app.pc = "running"
    /\ budget < MaxInputs
    /\ budget' = budget + 1
    /\ ConnectSend(id, 1)
    /\ UNCHANGED <<wpc, session, cam_q, hot_q, events, attached, cells, last>>
    /\ UNCHANGED <<prop, net, slider, hpc>>

\* Camera::connect goes on to its next send, app.k sends being done (the
\* worker runs between two sends); unique_id went into the first message
CameraConnectNext ==
    /\ app.pc = "connect"
    /\ ConnectSend(None, app.k + 1)
    /\ UNCHANGED <<wpc, session, cam_q, hot_q, events, attached, cells, last,
                   budget>>
    /\ UNCHANGED <<prop, net, slider, hpc>>

\* CellSet where the application also sets the parameter on the session
CellSet_Direct(p, v) ==
    /\ app.pc = "running"
    /\ budget < MaxInputs
    /\ budget' = budget + 1
    /\ cells' = [cells EXCEPT ![p] = v]
    /\ session' = IF session.open THEN [session EXCEPT ![p] = v] ELSE session
    /\ IF SendFails
       THEN UNCHANGED <<cmd_q, sent>>
       ELSE /\ cmd_q' = Append(cmd_q, Command(ParamKind[p], None, v, sent + 1))
            /\ sent' = sent + 1
    /\ UNCHANGED <<wpc, cam_q, hot_q, events, attached, app, last>>
    /\ UNCHANGED <<prop, net, slider, hpc>>

\* set on one of the four cells: Property::write stores the value and
\* calls the observer Camera::new installed with notify, which sends the
\* cell's command, ignoring a failure
CellSet(p, v) ==
    /\ app.pc = "running"
    /\ budget < MaxInputs
    /\ budget' = budget + 1
    /\ LET m == PropertyWrite(ParamCell(cells[p], ~SendFails),
                              [kind |-> "const", k |-> v])
       IN /\ cells' = [cells EXCEPT ![p] = m.value]
          /\ cmd_q' = cmd_q \o
                [i \in 1..Len(m.chan) |->
                    Command(ParamKind[p], None, m.chan[i].msg, sent + i)]
          /\ sent' = sent + Len(m.chan)
    /\ UNCHANGED <<wpc, session, cam_q, hot_q, events, attached, app, last>>
    /\ UNCHANGED <<prop, net, slider, hpc>>

\* Camera::snap
CameraSnap ==
    /\ app.pc = "running"
    /\ budget < MaxInputs
    /\ budget' = budget + 1
    /\ IF SendFails
       THEN /\ app' = [AppIdle EXCEPT !.pc = "panicked"]
            /\ UNCHANGED <<cmd_q, sent>>
       ELSE /\ cmd_q' = Append(cmd_q, Command("Snap", None, 0, sent + 1))
            /\ sent' = sent + 1
            /\ UNCHANGED app
    /\ UNCHANGED <<wpc, session, cam_q, hot_q, events, attached, cells, last>>
    /\ UNCHANGED <<prop, net, slider, hpc>>

(***************************************************************************)
(* The environment: the hardware.                                          *)
(***************************************************************************)
\* the started session reports an event on cam_rx
HwCamEvent(event) ==
    /\ wpc = "session"
    /\ budget < MaxInputs
    /\ budget' = budget + 1
    /\ cam_q' = Append(cam_q, event)
    /\ UNCHANGED <<wpc, session, cmd_q, hot_q, events, attached, cells,
                   app, sent, last>>
    /\ UNCHANGED <<prop, net, slider, hpc>>

\* a device is attached or removed; the watcher queues a notification
\* once Toupcam::hotplug has registered it and as long as the worker lives
HwHotplug(d) ==
    /\ budget < MaxInputs
    /\ budget' = budget + 1
    /\ attached' = IF d \in attached THEN attached \ {d}
                   ELSE attached \cup {d}
    /\ hot_q' = IF wpc \in {"idle", "session"} THEN hot_q + 1 ELSE hot_q
    /\ UNCHANGED <<wpc, session, cmd_q, cam_q, events, cells, app, sent,
                   last>>
    /\ UNCHANGED <<prop, net, slider, hpc>>

(***************************************************************************)
(* Specification.                                                          *)
(***************************************************************************)
\* Camera::new: the cells are created, each notify sends the cell's initial
\* value, and the worker thread is spawned
Init ==
    /\ wpc = "start"
    /\ session = NoSession
    /\ cells = InitialCells
    /\ cmd_q = CameraNew
    /\ sent = Len(CameraNew)
    /\ cam_q = <<>>
    /\ hot_q = 0
    /\ events = <<>>
    /\ attached \in {{}, {"X"}}
    /\ app = AppIdle
    /\ budget = 0
    /\ last = Spawned
    /\ prop = NoProperty
    /\ net = NoNetwork
    /\ slider = NoSlider
    /\ hpc = NoThread

Worker ==
    \/ WorkerEnumerate
    \/ WorkerStart
    \/ WorkerWatch
    \/ WorkerIdleHotplug
    \/ WorkerIdleCommand
    \/ WorkerSessionCommand
    \/ WorkerSessionCamEvent
    \/ WorkerSessionHotplug

Next ==
    \/ Worker
    \/ \E id \in ConnectIds : CameraConnect(id)
    \/ CameraConnectNext
    \/ \E p \in WriteParams : \E v \in WriteValues[p] : CellSet(p, v)
    \/ CameraSnap
    \/ \E event \in CamEvents : HwCamEvent(event)
    \/ \E d \in Devices : HwHotplug(d)

Spec == Init /\ [][Next]_vars

TypeOK ==
    /\ wpc \in {"start", "enumerated", "sent", "idle", "session", "dead"}
    /\ session.open <=> wpc = "session"
    /\ hot_q \in Nat
    /\ attached \subseteq Devices
    /\ app.pc \in {"running", "connect", "panicked"}
    /\ app.pc = "connect" <=> app.k \in 1..4

(***************************************************************************)
(* The program of src/main.rs: the worker cam_thread, the hotplug watcher  *)
(* cam_hotplug_thread and the event loop of main.  Here events is the      *)
(* event channel all three send on, app.rd counts the events main has      *)
(* taken from it, and cells holds the current values of the four sliders.  *)
(***************************************************************************)
\* the SliderPosition each slider is created with, main
SliderInit ==
    [exposure_time |-> [minimum |-> 1, maximum |-> 2000, step |-> 5,
                        current |-> 120],
     exposure_gain |-> [minimum |-> 100, maximum |-> 500, step |-> 1,
                        current |-> 100],
     temperature |-> [minimum |-> 2000, maximum |-> 15000, step |-> 10,
                      current |-> 6503],
     tint |-> [minimum |-> 200, maximum |-> 2500, step |-> 10,
               current |-> 1000]]

\* the validator of a slider position: current is clamped to
\* [minimum, maximum] and snapped to the nearest minimum + n * step; the
\* result never leaves [minimum, maximum], so a value whose nearest
\* multiple lies above maximum ends at maximum
SliderValidate(p, v) ==
    LET r == SliderInit[p]
        c == IF v < r.minimum THEN r.minimum
             ELSE IF v > r.maximum THEN r.maximum ELSE v
        snapped == r.minimum
                     + ((2 * (c - r.minimum) + r.step) \div (2 * r.step))
                         * r.step
    IN IF snapped > r.maximum THEN r.maximum ELSE snapped

\* enum CameraCmd as built by exposure_time_cmd, exposure_gain_cmd,
\* color_temp_cmd and tint_cmd from a slider's current value
MainCmdKind ==
    [exposure_time |-> "ExposureTime", exposure_gain |-> "ExposureGain",
     temperature |-> "ColorTemperature", tint |-> "Tint"]

MainCmdValue(p, current) ==
    IF p = "exposure_time" THEN current * 1000 ELSE current

\* enum Event of main.rs
EvCameraHotplug == [kind |-> "CameraHotplug", list |-> <<>>, data |-> <<>>]
EvCameraConnected(s) ==
    [kind |-> "CameraConnected", list |-> <<>>,
     data |-> [exposure_time |-> s.exposure_time,
               exposure_gain |-> s.exposure_gain,
               temperature |-> s.temperature, tint |-> s.tint]]
EvCameraImage(data) == [kind |-> "CameraImage", list |-> <<>>, data |-> data]
EvCameraStillImage(data) ==
    [kind |-> "CameraStillImage", list |-> <<>>, data |-> data]
EvCameraDisconnected ==
    [kind |-> "CameraDisconnected", list |-> <<>>, data |-> <<>>]
EvGlfw(input) == [kind |-> "Glfw", list |-> <<>>, data |-> input]

\* cam_thread without a session: cmd_rx.recv(); anything but Connect and a
\* failed open(None) continue the loop; otherwise the session is
\* configured and started and CameraConnected reports its parameters
MainIdleCommand ==
    /\ wpc = "idle"
    /\ cmd_q # <<>>
    /\ cmd_q' = Tail(cmd_q)
    /\ LET cmd == Head(cmd_q)
           dev == Open(None, attached)
       IN IF cmd.kind = "Connect" /\ dev # None
          THEN /\ session' = Configured(dev[1], cmd.n)
               /\ cam_q' = <<>>
               /\ Send(EvCameraConnected(Configured(dev[1], cmd.n)))
               /\ wpc' = "session"
               /\ last' = Step("command", cmd,
                               <<"open", "set_preview_size_index",
                                 "set_automatic_exposure", "start",
                                 "exposure_time", "exposure_gain",
                                 "white_balance_temp_tint",
                                 "white_balance_temp_tint">>)
          ELSE /\ last' = Step("command", cmd,
                               IF cmd.kind = "Connect" THEN <<"open">>
                               ELSE <<>>)
               /\ UNCHANGED <<session, cam_q, events, wpc>>
    /\ UNCHANGED <<hot_q, attached, cells, app, sent, budget>>
    /\ UNCHANGED <<prop, net, slider, hpc>>

\* cam_thread in a session: cam_rx.recv() and the match on the event;
\* every arm but Disconnected goes on to flush the command channel
MainSessionCamEvent ==
    /\ wpc = "session"
    /\ cam_q # <<>>
    /\ LET event == Head(cam_q)
       IN CASE event \in {"Image", "StillImage"} ->
                 \E raw \in RawFrames :
                    IF SetAlphaPanics(raw)
                    THEN Panic(event, <<"pull", "close">>)
                    ELSE /\ Send(IF event = "Image"
                                 THEN EvCameraImage(set_alpha(raw, 255))
                                 ELSE EvCameraStillImage(set_alpha(raw, 255)))
                         /\ cam_q' = Tail(cam_q)
                         /\ wpc' = "flush"
                         /\ last' = Step(event, NoCmd, <<"pull">>)
                         /\ UNCHANGED session
            [] event = "Disconnected" ->
                 /\ Send(EvCameraDisconnected)
                 /\ wpc' = "idle"
                 /\ session' = NoSession
                 /\ cam_q' = <<>>
                 /\ last' = Step(event, NoCmd, <<"close">>)
            [] OTHER ->
                 /\ cam_q' = Tail(cam_q)
                 /\ wpc' = "flush"
                 /\ last' = Step(event, NoCmd, <<>>)
                 /\ UNCHANGED <<session, events>>
    /\ UNCHANGED <<cmd_q, hot_q, attached, cells, app, sent, budget>>
    /\ UNCHANGED <<prop, net, slider, hpc>>

\* the hardware calls one CameraCmd makes on the session
MainApplyCommand(s, cmd) ==
    CASE cmd.kind = "ExposureTime" -> [s EXCEPT !.exposure_time = cmd.val]
      [] cmd.kind = "ExposureGain" -> [s EXCEPT !.exposure_gain = cmd.val]
      [] cmd.kind = "ColorTemperature" -> [s EXCEPT !.temperature = cmd.val]
      [] cmd.kind = "Tint" -> [s EXCEPT !.tint = cmd.val]
      [] OTHER -> s

MainCommandCalls(cmd) ==
    CASE cmd.kind = "ExposureTime" -> <<"set_exposure_time">>
      [] cmd.kind = "ExposureGain" -> <<"set_exposure_gain">>
      [] cmd.kind \in {"ColorTemperature", "Tint"} ->
            <<"white_balance_temp_tint", "set_white_balance_temp_tint">>
      [] cmd.kind = "Snap" -> <<"preview_size_index", "snap_index">>
      [] OTHER -> <<>>

\* for cmd in glfw::flush_messages(&cmd_rx): the queued commands are
\* applied one by one; when the channel is empty the loop goes back to
\* cam_rx.recv()
MainFlush ==
    /\ wpc = "flush"
    /\ IF cmd_q # <<>>
       THEN /\ cmd_q' = Tail(cmd_q)
            /\ session' = MainApplyCommand(session, Head(cmd_q))
            /\ last' = Step("command", Head(cmd_q),
                            MainCommandCalls(Head(cmd_q)))
            /\ UNCHANGED wpc
       ELSE /\ wpc' = "session"
            /\ UNCHANGED <<cmd_q, session, last>>
    /\ UNCHANGED <<cam_q, hot_q, events, attached, cells, app, sent, budget>>
    /\ UNCHANGED <<prop, net, slider, hpc>>

\* cam_hotplug_thread, its first statement: Toupcam::hotplug registers
\* the watcher
MainHotplugRegister ==
    /\ hpc = "start"
    /\ hpc' = "watch"
    /\ UNCHANGED <<wpc, session, cmd_q, cam_q, hot_q, events, attached, cells,
                   app, sent, budget, last>>
    /\ UNCHANGED <<prop, net, slider>>

\* cam_hotplug_thread: rx.recv(), then send CameraHotplug
MainHotplugThread ==
    /\ hpc = "watch"
    /\ hot_q > 0
    /\ hot_q' = hot_q - 1
    /\ Send(EvCameraHotplug)
    /\ UNCHANGED <<wpc, session, cmd_q, cam_q, attached, cells, app, sent,
                   budget, last>>
    /\ UNCHANGED <<prop, net, slider, hpc>>

\* cmd_tx.send(cmd).unwrap() in main: st holds the slider values (cs),
\* the commands sent (cmds) and whether the send failed, which unwrap()
\* turns into a panic (panicked)
MainSend(st, cmd) ==
    IF st.panicked THEN st
    ELSE IF SendFails THEN [st EXCEPT !.panicked = TRUE]
    ELSE [st EXCEPT !.cmds = Append(@, cmd)]

\* set on a slider's position: the value is stored, then the observer of
\* cam_slider sends the slider's command and unwraps the result
MainSetSlider(st, p, v) ==
    LET current == SliderValidate(p, v)
    IN IF st.panicked THEN st
       ELSE MainSend([st EXCEPT !.cs[p] = current],
                     [kind |-> MainCmdKind[p],
                      val |-> MainCmdValue(p, current)])

\* the match on one event of the event channel: the value of
\* camera_connected after the arm, and what the arm does that sends, in
\* order: a slider p set to the value v, or (p "none") a command of the
\* kind sent
MainOnEvent(e) ==
    CASE e.kind = "CameraHotplug" ->
           [connected |-> app.connected,
            todo |-> IF app.connected THEN <<>>
                     ELSE <<[p |-> "none", v |-> 0, kind |-> "Connect"]>>]
      [] e.kind = "CameraConnected" ->
           [connected |-> TRUE,
            todo |-> << [p |-> "exposure_time",
                         v |-> e.data.exposure_time \div 1000,
                         kind |-> "none"],
                        [p |-> "exposure_gain", v |-> e.data.exposure_gain,
                         kind |-> "none"],
                        [p |-> "temperature", v |-> e.data.temperature,
                         kind |-> "none"],
                        [p |-> "tint", v |-> e.data.tint,
                         kind |-> "none"] >>]
      [] e.kind = "CameraDisconnected" ->
           [connected |-> FALSE, todo |-> <<>>]
      [] e.kind = "Glfw" /\ e.data[1] = "Slider" ->
           [connected |-> app.connected,
            todo |-> <<[p |-> e.data[2], v |-> e.data[3],
                        kind |-> "none"]>>]
      [] e.kind = "Glfw" /\ e.data[1] = "Space" ->
           [connected |-> app.connected,
            todo |-> <<[p |-> "none", v |-> 0, kind |-> "Snap"]>>]
      [] OTHER -> [connected |-> app.connected, todo |-> <<>>]

\* main before its event loop: cam_slider makes the next slider, and
\* observe calls the new observer once, which sends the command of the
\* slider's initial value; the threads spawned before run between two
\* sliders.  After the fourth slider main enters its event loop.
MainCamSlider ==
    /\ app.pc = "start"
    /\ LET p == Head(app.todo).p
           st == MainSend([cs |-> cells, cmds |-> <<>>, panicked |-> FALSE],
                          [kind |-> MainCmdKind[p],
                           val |-> MainCmdValue(p, cells[p])])
       IN /\ app' = [app EXCEPT
                        !.pc = IF st.panicked THEN "panicked"
                               ELSE IF Len(app.todo) = 1 THEN "running"
                               ELSE "start",
                        !.todo = IF st.panicked THEN <<>> ELSE Tail(@)]
          /\ cmd_q' = cmd_q \o
                [i \in 1..Len(st.cmds) |->
                    Command(st.cmds[i].kind, None, st.cmds[i].val,
                            sent + i)]
          /\ sent' = sent + Len(st.cmds)
    /\ UNCHANGED <<wpc, session, cam_q, hot_q, events, attached, cells,
                   budget, last>>
    /\ UNCHANGED <<prop, net, slider, hpc>>

\* main's event loop takes the next event from the channel and enters its
\* match arm
MainHandleEvent ==
    /\ app.pc = "running"
    /\ app.todo = <<>>
    /\ app.rd < Len(events)
    /\ app' = [pc |-> "running",
               connected |-> MainOnEvent(events[app.rd + 1]).connected,
               rd |-> app.rd + 1,
               todo |-> MainOnEvent(events[app.rd + 1]).todo]
    /\ UNCHANGED <<wpc, session, cmd_q, cam_q, hot_q, events, attached, cells,
                   sent, budget, last>>
    /\ UNCHANGED <<prop, net, slider, hpc>>

\* main goes on in the arm to its next send: a slider is set, which makes
\* its observer send, or a command is sent; cam_thread runs between two
\* sends
MainHandleNext ==
    /\ app.pc = "running"
    /\ app.todo # <<>>
    /\ LET op == Head(app.todo)
           st0 == [cs |-> cells, cmds |-> <<>>, panicked |-> FALSE]
           st == IF op.p = "none"
                 THEN MainSend(st0, [kind |-> op.kind, val |-> 0])
                 ELSE MainSetSlider(st0, op.p, op.v)
       IN /\ cells' = st.cs
          /\ app' = [app EXCEPT
                        !.pc = IF st.panicked THEN "panicked" ELSE @,
                        !.todo = IF st.panicked THEN <<>> ELSE Tail(@)]
          /\ cmd_q' = cmd_q \o
                [i \in 1..Len(st.cmds) |->
                    Command(st.cmds[i].kind, None, st.cmds[i].val,
                            sent + i)]
          /\ sent' = sent + Len(st.cmds)
    /\ UNCHANGED <<wpc, session, cam_q, hot_q, events, attached, budget, last>>
    /\ UNCHANGED <<prop, net, slider, hpc>>

\* the user drags a slider or presses Space: glfw_event_thread forwards the
\* window event to the event channel
MainUserInput(input) ==
    /\ budget < MainMaxInputs
    /\ budget' = budget + 1
    /\ Send(EvGlfw(input))
    /\ UNCHANGED <<wpc, session, cmd_q, cam_q, hot_q, attached, cells, app,
                   sent, last>>
    /\ UNCHANGED <<prop, net, slider, hpc>>

\* the started session reports an event on cam_rx
MainHwCamEvent(event) ==
    /\ wpc \in {"session", "flush"}
    /\ budget < MainMaxInputs
    /\ budget' = budget + 1
    /\ cam_q' = Append(cam_q, event)
    /\ UNCHANGED <<wpc, session, cmd_q, hot_q, events, attached, cells,
                   app, sent, last>>
    /\ UNCHANGED <<prop, net, slider, hpc>>

\* a device is attached or removed; the watcher of cam_hotplug_thread
\* queues a notification once it is registered
MainHwHotplug(d) ==
    /\ budget < MainMaxInputs
    /\ budget' = budget + 1
    /\ attached' = IF d \in attached THEN attached \ {d}
                   ELSE attached \cup {d}
    /\ hot_q' = IF hpc = "watch" THEN hot_q + 1 ELSE hot_q
    /\ UNCHANGED <<wpc, session, cmd_q, cam_q, events, cells, app, sent,
                   last>>
    /\ UNCHANGED <<prop, net, slider, hpc>>

\* main up to the spawning of its threads: CameraHotplug is sent to the
\* event channel, then cam_hotplug_thread and cam_thread are spawned; none
\* has run yet, nothing is on the command channel, and the four sliders
\* are still to be made (app.todo)
MainInit ==
    /\ wpc = "idle"
    /\ session = NoSession
    /\ cells = [p \in Params |-> SliderInit[p].current]
    /\ cmd_q = <<>>
    /\ sent = 0
    /\ cam_q = <<>>
    /\ hot_q = 0
    /\ events = <<EvCameraHotplug>>
    /\ attached \in {{}, {"X"}}
    /\ app = [pc |-> "start", connected |-> FALSE, rd |-> 0,
              todo |-> [i \in 1..Len(ParamOrder) |->
                          [p |-> ParamOrder[i],
                           v |-> SliderInit[ParamOrder[i]].current,
                           kind |-> "observe"]]]
    /\ budget = 0
    /\ last = Spawned
    /\ prop = NoProperty
    /\ net = NoNetwork
    /\ slider = NoSlider
    /\ hpc = "start"

MainWorker ==
    \/ MainIdleCommand
    \/ MainSessionCamEvent
    \/ MainFlush

\* window events: Space pressed, or a slider dragged to a value
MainInputs == {<<"Space">>, <<"Slider", "tint", 1204>>}

MainNext ==
    \/ MainWorker
    \/ MainHotplugRegister
    \/ MainHotplugThread
    \/ MainCamSlider
    \/ MainHandleEvent
    \/ MainHandleNext
    \/ \E input \in MainInputs : MainUserInput(input)
    \/ \E event \in CamEvents : MainHwCamEvent(event)
    \/ \E d \in Devices : MainHwHotplug(d)

SpecMain == MainInit /\ [][MainNext]_vars

MainTypeOK ==
    /\ wpc \in {"idle", "session", "flush", "dead"}
    /\ session.open <=> wpc \in {"session", "flush"}
    /\ hot_q \in Nat
    /\ attached \subseteq Devices
    /\ app.pc \in {"start", "running", "panicked"}
    /\ app.rd \in 0..Len(events)
    /\ Len(app.todo) <= 4
    /\ hpc \in {"start", "watch"}

\* cam_thread, cam_hotplug_thread and main run whenever they can take a
\* step
SpecMainFair ==
    SpecMain /\ WF_vars(MainWorker)
             /\ WF_vars(MainCamSlider \/ MainHandleEvent \/ MainHandleNext)
             /\ WF_vars(MainHotplugRegister \/ MainHotplugThread)

\* camera_thread runs whenever it can take a step
SpecFair == Spec /\ WF_vars(Worker)

(***************************************************************************)
(* Property of src/ui/property.rs, and the calls made on a cell on its     *)
(* own.                                                                    *)
(***************************************************************************)
RECURSIVE UiSet(_, _)
RECURSIVE UiObserve(_, _)
RECURSIVE UiNotify(_, _)

\* Property::get of ui/property.rs
UiGet(m) ==
    IF ~CanBorrow(m.bval) THEN Fault(m, "read")
    ELSE [m EXCEPT !.got = Append(@, m.value)]

\* (*observer)(&self.value.borrow()): the value stays borrowed (shared)
\* during the call
UiInvoke(m, o) ==
    IF ~CanBorrow(m.bval) THEN Fault(m, "read")
    ELSE LET m1 == [m EXCEPT !.bval = @ + 1,
                             !.log = Append(@, [obs |-> o.id,
                                                val |-> m.value])]
             m2 == IF m.value # Trigger \/ o.does = "plain" THEN m1
                   ELSE IF o.does = "get" THEN UiGet(m1)
                   ELSE IF o.does = "set" THEN UiSet(m1, ReentrantValue)
                   ELSE UiObserve(m1, "plain")
         IN [m2 EXCEPT !.bval = @ - 1]

\* for observer in self.observers.borrow().iter(), from the i-th on
UiNotify(m, i) ==
    IF m.fault # "none" \/ i > Len(m.observers) THEN m
    ELSE UiNotify(UiInvoke(m, m.observers[i]), i + 1)

\* Property::set of ui/property.rs: the value is borrowed exclusively for
\* the assignment only; the observers stay borrowed (shared) for the loop
UiSet(m, new_value) ==
    IF ~CanBorrowMut(m.bval) THEN Fault(m, "write")
    ELSE LET m1 == [m EXCEPT !.value = validator(m.validator, new_value)]
         IN IF ~CanBorrow(m1.bobs) THEN Fault(m1, "write")
            ELSE [UiNotify([m1 EXCEPT !.bobs = @ + 1], 1)
                     EXCEPT !.bobs = @ - 1]

\* UiObserve with the observer pushed without being called
UiObserve_Silent(m, does) ==
    LET o == [id |-> m.nid, does |-> does]
    IN IF ~CanBorrowMut(m.bobs) THEN Fault(m, "observe")
       ELSE [m EXCEPT !.nid = @ + 1, !.observers = Append(@, o)]

\* Property::observe of ui/property.rs: call the observer, then borrow the
\* observers exclusively to push it
UiObserve(m, does) ==
    LET o == [id |-> m.nid, does |-> does]
        m1 == UiInvoke([m EXCEPT !.nid = @ + 1], o)
    IN IF m1.fault # "none" THEN m1
       ELSE IF ~CanBorrowMut(m1.bobs) THEN Fault(m1, "observe")
       ELSE [m1 EXCEPT !.observers = Append(@, o)]

\* the variables of the camera programs
camera == <<wpc, session, cmd_q, cam_q, hot_q, events, attached, cells,
            app, sent, budget, last, hpc>>

\* the cell as a call finds it: no call in progress
Called(kind, arg) ==
    [prop EXCEPT !.log = <<>>, !.got = <<>>, !.chan = <<>>,
                 !.other.log = <<>>,
                 !.op = [kind |-> kind, arg |-> arg, old |-> prop.value,
                         before |-> prop.observers]]

\* write(writer) on the cell; ui/property.rs has set only
CellWrite(w) ==
    /\ prop.fault = "none"
    /\ prop.impl = "ui" => w.kind = "const"
    /\ Writer(w, prop.value) <= MaxCellValue
    /\ prop' = IF prop.impl = "core"
               THEN PropertyWrite(Called("write", w), w)
               ELSE UiSet(Called("write", w), w.k)
    /\ UNCHANGED <<camera, net, slider>>

\* observe(observer) on the cell; notify(channel, map) and
\* propagate(other, map) are observe of the forwarding closure
CellObserve(does) ==
    /\ prop.fault = "none"
    /\ Len(prop.observers) < MaxObservers
    /\ does \in {"notify", "propagate"} => prop.impl = "core"
    /\ prop' = IF prop.impl = "core"
               THEN PropertyObserve(Called("observe", does), does)
               ELSE UiObserve(Called("observe", does), does)
    /\ UNCHANGED <<camera, net, slider>>

\* read / get on the cell
CellRead ==
    /\ prop.fault = "none"
    /\ prop' = IF prop.impl = "core"
               THEN PropertyRead(Called("read", 0))
               ELSE UiGet(Called("read", 0))
    /\ UNCHANGED <<camera, net, slider>>

\* the receiving end of the channel given to notify is dropped
CellDropReceiver ==
    /\ prop.fault = "none"
    /\ prop.impl = "core"
    /\ prop.rx
    /\ prop' = [Called("drop", 0) EXCEPT !.rx = FALSE]
    /\ UNCHANGED <<camera, net, slider>>

\* the cell given to propagate: Property::with_validator(0, clamp), with
\* two observers of its own that do nothing else
OtherCell ==
    [validator |-> "clamp", value |-> validator("clamp", 0),
     observers |-> <<[id |-> 1, does |-> "plain"],
                     [id |-> 2, does |-> "plain"]>>,
     nid |-> 3, log |-> <<>>, got |-> <<>>, fault |-> "none",
     chan |-> <<>>, rx |-> TRUE, bcell |-> 0]

\* Property::new / with_validator (which validates the initial value) and
\* ui Property::new / new_validated (which stores it as given); no camera
\* program runs
CellInit ==
    /\ \E impl \in Impls, which \in Validators, initial \in InitialValues :
          prop = [impl |-> impl, validator |-> which,
                  value |-> IF impl = "core" THEN validator(which, initial)
                            ELSE initial,
                  observers |-> <<>>, nid |-> 1,
                  log |-> <<>>, got |-> <<>>, fault |-> "none",
                  chan |-> <<>>, rx |-> TRUE,
                  bcell |-> 0, bval |-> 0, bobs |-> 0,
                  other |-> OtherCell,
                  op |-> [kind |-> "new", arg |-> initial, old |-> initial,
                          before |-> <<>>]]
    /\ net = NoNetwork
    /\ slider = NoSlider
    /\ hpc = NoThread
    /\ wpc = "start"
    /\ session = NoSession
    /\ cmd_q = <<>>
    /\ cam_q = <<>>
    /\ hot_q = 0
    /\ events = <<>>
    /\ attached = {}
    /\ cells = InitialCells
    /\ app = [pc |-> "running"]
    /\ sent = 0
    /\ budget = 0
    /\ last = Spawned

CellNext ==
    \/ \E w \in Writers : CellWrite(w)
    \/ \E does \in Does : CellObserve(does)
    \/ CellRead
    \/ CellDropReceiver

CellSpec == CellInit /\ [][CellNext]_vars

CellTypeOK ==
    /\ prop.impl \in Impls
    /\ prop.fault \in {"none", "read", "write", "observe"}
    /\ prop.bcell = 0 /\ prop.bval = 0 /\ prop.bobs = 0
    /\ Len(prop.observers) <= MaxObservers + 1
    /\ prop.rx \in BOOLEAN
    /\ prop.rx \/ prop.impl = "core"

(***************************************************************************)
(* Cells bound to each other: the nodes Root, Linked and Derived of        *)
(* src/property.rs and Property::link / Property::derive, which re-point   *)
(* a cell.  net holds the node of every cell and what the latest call      *)
(* did: the observer invocations (log, with the value the observer's own   *)
(* closure saw), the value returned (got) and the cells whose Root::write  *)
(* ran (wrote); calls and points count the calls made and the calls of    *)
(* link and derive among them, and reg keeps, for every observer, the cell *)
(* it was registered on and the value of points at that time.  cellA is the cell that is re-pointed; it holds a tint.    *)
(* other1 and other2 are cells of the same type, wb1 and wb2 hold a white  *)
(* balance.  No closure of these cells calls back into a cell and cellA is *)
(* never its own target, so no RefCell borrow fails here.                  *)
(***************************************************************************)
LinkTargets == {"other1", "other2"}
DeriveTargets == {"wb1", "wb2"}
NetCells == {"cellA"} \cup LinkTargets \cup DeriveTargets

\* the validator closures of the cells: the identity of Property::new, or
\* a limit on the tint given to with_validator
TintMax == 1100
NetValidators ==
    [cellA |-> "id", other1 |-> "id", other2 |-> "limit",
     wb1 |-> "id", wb2 |-> "limit"]

Limit(v) == IF v > TintMax THEN TintMax ELSE v

NetValidator(c, v) ==
    IF NetValidators[c] = "id" THEN v
    ELSE IF c \in DeriveTargets THEN [v EXCEPT !.tint = Limit(@)]
    ELSE Limit(v)

\* the values the cells are created with
NetInitial ==
    [cellA |-> 1000, other1 |-> 1000, other2 |-> 1000,
     wb1 |-> [temperature |-> 6503, tint |-> 1000],
     wb2 |-> [temperature |-> 6503, tint |-> 1000]]

\* writers on a tint: set(1000), set(1200), and one that depends on the old
\* value
TintWriters ==
    {[kind |-> "const", k |-> 1000], [kind |-> "const", k |-> 1200],
     [kind |-> "add", k |-> 200]}

\* writers on a white balance: set
WbWriters ==
    {[kind |-> "const", k |-> [temperature |-> 5000, tint |-> 1200]]}

\* map_to of derive, with the temperature taken from nowhere
map_to_Fresh(linked_value, value) ==
    [temperature |-> 0, tint |-> value]

\* the two closures given to derive: the tint of a white balance, and the
\* white balance with its tint replaced
map_to(linked_value, value) ==
    [temperature |-> linked_value.temperature, tint |-> value]

map_from(linked_value) == linked_value.tint

RECURSIVE Apply(_, _)
\* a writer closure applied to the value it is given; the closure
\* Derived::write passes to its target maps the value, calls the writer
\* and maps the result back
Apply(w, old) ==
    IF w.kind = "derived"
    THEN map_to(old, Apply(w.writer, map_from(old)))
    ELSE Writer(w, old)

\* the nodes
Root(initial, observers) ==
    [kind |-> "Root", value |-> initial, observers |-> observers]
Linked(other) == [kind |-> "Linked", property |-> other]
Derived(other) == [kind |-> "Derived", property |-> other]

\* the value an observer's own closure sees: Derived::observe wraps the
\* closure so that it is called with map_from of the target's value
Seen(o, value) == IF o.map = "from" THEN map_from(value) ELSE value

RECURSIVE ObservableRead(_, _)
RECURSIVE ObservableWrite(_, _, _)
RECURSIVE ObservableObserve(_, _, _)
RECURSIVE NetNotify(_, _, _)

LinkedRead(n, node) == ObservableRead(n, node.property)

DerivedRead(n, node) == map_from(ObservableRead(n, node.property))

\* Observable::read of the node of cell c, reached through Property::read
ObservableRead(n, c) ==
    LET node == n.node[c]
    IN IF node.kind = "Root" THEN node.value
       ELSE IF node.kind = "Linked" THEN LinkedRead(n, node)
       ELSE DerivedRead(n, node)

\* for observer in self.observers.iter_mut() of the Root of cell c, from
\* the i-th on
NetNotify(n, c, i) ==
    LET node == n.node[c]
    IN IF i > Len(node.observers) THEN n
       ELSE NetNotify(
                [n EXCEPT !.log = Append(@,
                     [obs |-> node.observers[i].id,
                      val |-> Seen(node.observers[i], node.value)])],
                c, i + 1)

\* NetRootWrite calling no observer when the write leaves the tint of a
\* white balance as it was
NetRootWrite_Quiet(n, c, w) ==
    LET new == NetValidator(c, Apply(w, n.node[c].value))
        stored == [n EXCEPT !.node[c].value = new, !.wrote = Append(@, c)]
    IN IF c \in DeriveTargets /\ map_from(new) = map_from(n.node[c].value)
       THEN stored
       ELSE NetNotify(stored, c, 1)

\* Root::write on the Root of cell c
NetRootWrite(n, c, w) ==
    NetNotify(
        [n EXCEPT !.node[c].value = NetValidator(c, Apply(w, @)),
                  !.wrote = Append(@, c)], c, 1)

LinkedWrite(n, node, w) == ObservableWrite(n, node.property, w)

\* DerivedWrite with the target written a second time
DerivedWrite_Twice(n, node, w) ==
    LET once == [kind |-> "derived", writer |-> w]
    IN ObservableWrite(ObservableWrite(n, node.property, once),
                       node.property,
                       [kind |-> "const",
                        k |-> ObservableRead(
                                  ObservableWrite(n, node.property, once),
                                  node.property)])

DerivedWrite(n, node, w) ==
    ObservableWrite(n, node.property, [kind |-> "derived", writer |-> w])

\* Observable::write of the node of cell c, reached through Property::write
ObservableWrite(n, c, w) ==
    LET node == n.node[c]
    IN IF node.kind = "Root" THEN NetRootWrite(n, c, w)
       ELSE IF node.kind = "Linked" THEN LinkedWrite(n, node, w)
       ELSE DerivedWrite(n, node, w)

\* Root::observe on the Root of cell c: call the observer, then push it
NetRootObserve(n, c, o) ==
    [n EXCEPT !.log = Append(@, [obs |-> o.id,
                                 val |-> Seen(o, n.node[c].value)]),
              !.node[c].observers = Append(@, o)]

LinkedObserve(n, node, o) == ObservableObserve(n, node.property, o)

DerivedObserve(n, node, o) ==
    ObservableObserve(n, node.property, [o EXCEPT !.map = "from"])

\* Observable::observe of the node of cell c, reached through
\* Property::observe
ObservableObserve(n, c, o) ==
    LET node == n.node[c]
    IN IF node.kind = "Root" THEN NetRootObserve(n, c, o)
       ELSE IF node.kind = "Linked" THEN LinkedObserve(n, node, o)
       ELSE DerivedObserve(n, node, o)

\* Destruct with the observers of a Root left behind
Destruct_Drop(node) == <<>>

\* Observable::destruct: a Root gives up its observers, Linked and Derived
\* return an empty Vec
Destruct(node) == IF node.kind = "Root" THEN node.observers ELSE <<>>

RECURSIVE Reobserve(_, _, _, _)
\* for observer in observers.drain(..) { self.0.borrow_mut().observe(..) }
Reobserve(n, c, observers, i) ==
    IF i > Len(observers) THEN n
    ELSE Reobserve(ObservableObserve(n, c, observers[i]), c, observers,
                   i + 1)

\* Repoint registering the observers of the replaced node last to first
Repoint_Reversed(n, c, new) ==
    LET observers == Destruct(n.node[c])
    IN Reobserve([n EXCEPT !.node[c] = new], c,
                 [i \in 1..Len(observers) |->
                     observers[Len(observers) + 1 - i]], 1)

\* the body link and derive share: swap the new node in, then register
\* the observers of the replaced node on the cell again
Repoint(n, c, new) ==
    Reobserve([n EXCEPT !.node[c] = new], c, Destruct(n.node[c]), 1)

\* Property::link
Link(n, c, other) == Repoint(n, c, Linked(other))

\* Property::derive
Derive(n, c, other) == Repoint(n, c, Derived(other))

RECURSIVE RootOf(_, _)
\* the cell whose Root holds the value of cell c
RootOf(n, c) ==
    IF n.node[c].kind = "Root" THEN c ELSE RootOf(n, n.node[c].property)

\* every observer held by some Root
AllObservers(n) ==
    UNION {{n.node[c].observers[i] : i \in 1..Len(n.node[c].observers)} :
              c \in {d \in NetCells : n.node[d].kind = "Root"}}

\* the cells as a call finds them; old is the value of the Root the cell
\* leads to
NetCalled(kind, c, arg) ==
    [net EXCEPT !.log = <<>>, !.got = <<>>, !.wrote = <<>>,
                !.calls = @ + 1,
                !.op = [kind |-> kind, cell |-> c, arg |-> arg,
                        old |-> net.node[RootOf(net, c)].value]]

\* write(writer) on cell c
NetWrite(c, w) ==
    /\ net.calls < MaxCalls
    /\ w.kind = "add" => Writer(w, ObservableRead(net, c)) <= MaxTint
    /\ net' = ObservableWrite(NetCalled("write", c, w), c, w)
    /\ UNCHANGED <<camera, prop, slider>>

\* observe(observer) on cell c
NetObserve(c) ==
    /\ net.calls < MaxCalls
    /\ net.nid <= MaxObservers
    /\ net' = ObservableObserve(
                  [NetCalled("observe", c, net.nid)
                      EXCEPT !.nid = @ + 1,
                             !.reg = Append(@, [on |-> c,
                                                at |-> net.points])],
                  c, [id |-> net.nid, map |-> "id"])
    /\ UNCHANGED <<camera, prop, slider>>

\* get on cell c
NetRead(c) ==
    /\ net.calls < MaxCalls
    /\ net' = [NetCalled("read", c, 0)
                  EXCEPT !.got = <<ObservableRead(net, c)>>]
    /\ UNCHANGED <<camera, prop, slider>>

\* cellA.link(other)
NetLink(other) ==
    /\ net.calls < MaxCalls
    /\ net.points < MaxPoints
    /\ net' = Link([NetCalled("link", "cellA", other)
                       EXCEPT !.points = @ + 1], "cellA", other)
    /\ UNCHANGED <<camera, prop, slider>>

\* cellA.derive(other, map_to, map_from)
NetDerive(other) ==
    /\ net.calls < MaxCalls
    /\ net.points < MaxPoints
    /\ net' = Derive([NetCalled("derive", "cellA", other)
                         EXCEPT !.points = @ + 1], "cellA", other)
    /\ UNCHANGED <<camera, prop, slider>>

\* Property::new and Property::with_validator for every cell; no camera
\* program runs
NetInit ==
    /\ net = [node |-> [c \in NetCells |->
                           Root(NetValidator(c, NetInitial[c]), <<>>)],
              nid |-> 1, reg |-> <<>>, points |-> 0, calls |-> 0,
              log |-> <<>>, got |-> <<>>, wrote |-> <<>>,
              op |-> [kind |-> "new", cell |-> "cellA", arg |-> 0,
                      old |-> NetInitial["cellA"]]]
    /\ prop = NoProperty
    /\ slider = NoSlider
    /\ hpc = NoThread
    /\ wpc = "start"
    /\ session = NoSession
    /\ cmd_q = <<>>
    /\ cam_q = <<>>
    /\ hot_q = 0
    /\ events = <<>>
    /\ attached = {}
    /\ cells = InitialCells
    /\ app = [pc |-> "running"]
    /\ sent = 0
    /\ budget = 0
    /\ last = Spawned

NetNext ==
    \/ \E c \in NetCells \ DeriveTargets, w \in TintWriters : NetWrite(c, w)
    \/ \E c \in DeriveTargets, w \in WbWriters : NetWrite(c, w)
    \/ \E c \in NetCells : NetObserve(c)
    \/ \E c \in NetCells : NetRead(c)
    \/ \E other \in LinkTargets : NetLink(other)
    \/ \E other \in DeriveTargets : NetDerive(other)

LinkSpec == NetInit /\ [][NetNext]_vars

NetTypeOK ==
    /\ \A c \in NetCells \ {"cellA"} : net.node[c].kind = "Root"
    /\ net.node["cellA"].kind = "Linked" =>
          net.node["cellA"].property \in LinkTargets
    /\ net.node["cellA"].kind = "Derived" =>
          net.node["cellA"].property \in DeriveTargets
    /\ net.points \in 0..MaxPoints
    /\ Cardinality(AllObservers(net)) <= MaxObservers
    /\ \A c \in NetCells :
          net.node[c].kind = "Derived"
              \/ ObservableRead(net, c) = net.node[RootOf(net, c)].value

(***************************************************************************)
(* The Slider widget of src/ui/widget.rs on its own.  slider holds the     *)
(* fields of SliderState that the operations read or write (the f32        *)
(* values are whole numbers here), the values the update closure was       *)
(* called with by the latest operation (updated), and that operation (op). *)
(***************************************************************************)
\* arguments of set_min, set_max and set_step
SliderValues == {0, 1, 5, 2000}
\* arguments of set_value
SetValues == {0, 119, 5000}

\* position of the mouse along the track: norm_value of mouse_move is
\* q / NormDen, below 0 left of the track and above 1 right of it
NormDen == 4
NormNums == {-1, 1, 2, 4, 5}

\* f32::round of num / den, den > 0: half away from zero
Round(num, den) ==
    IF num >= 0 THEN (2 * num + den) \div (2 * den)
    ELSE 0 - ((2 * (0 - num) + den) \div (2 * den))

Performed(s, kind, arg) ==
    [s EXCEPT !.updated = <<>>, !.op = [kind |-> kind, arg |-> arg]]

\* Slider::set_min
set_min(s, value) ==
    [s EXCEPT !.min = IF value > s.max THEN s.max ELSE value]

\* Slider::set_max
set_max(s, value) ==
    [s EXCEPT !.max = IF value < s.min THEN s.min ELSE value]

\* Slider::set_step
set_step(s, value) ==
    [s EXCEPT !.step = IF value < 1 THEN 1 ELSE value]

\* Slider::set_value: clamp, store, call update
set_value(s, value) ==
    LET low == IF value < s.min THEN s.min ELSE value
        clamped == IF low > s.max THEN s.max ELSE low
    IN [s EXCEPT !.value = clamped, !.updated = Append(@, clamped)]

\* Slider::mouse_move with norm_value q / NormDen
mouse_move(s, q) ==
    IF s.ui_state = "Active"
    THEN set_value(s, Round(q * (s.max - s.min), NormDen * s.step) * s.step)
    ELSE s

\* Slider::mouse_down
mouse_down(s, q) == mouse_move([s EXCEPT !.ui_state = "Active"], q)

SliderSetMin(v) ==
    /\ slider' = set_min(Performed(slider, "set_min", v), v)
    /\ UNCHANGED <<camera, prop, net>>

SliderSetMax(v) ==
    /\ slider' = set_max(Performed(slider, "set_max", v), v)
    /\ UNCHANGED <<camera, prop, net>>

SliderSetStep(v) ==
    /\ slider' = set_step(Performed(slider, "set_step", v), v)
    /\ UNCHANGED <<camera, prop, net>>

SliderSetValue(v) ==
    /\ slider' = set_value(Performed(slider, "set_value", v), v)
    /\ UNCHANGED <<camera, prop, net>>

\* Widget::mouse_in, mouse_up (Hovered) and mouse_out (Passive)
SliderMouse(kind, ui_state) ==
    /\ slider' = [Performed(slider, kind, 0) EXCEPT !.ui_state = ui_state]
    /\ UNCHANGED <<camera, prop, net>>

SliderMouseDown(q) ==
    /\ slider' = mouse_down(Performed(slider, "mouse_down", q), q)
    /\ UNCHANGED <<camera, prop, net>>

SliderMouseMove(q) ==
    /\ slider' = mouse_move(Performed(slider, "mouse_move", q), q)
    /\ UNCHANGED <<camera, prop, net>>

\* Slider::new; no camera program runs
WidgetInit ==
    /\ slider = [min |-> 0, max |-> 10, step |-> 1, value |-> 0,
                 ui_state |-> "Passive", updated |-> <<>>,
                 op |-> [kind |-> "new", arg |-> 0]]
    /\ prop = NoProperty
    /\ net = NoNetwork
    /\ hpc = NoThread
    /\ wpc = "start"
    /\ session = NoSession
    /\ cmd_q = <<>>
    /\ cam_q = <<>>
    /\ hot_q = 0
    /\ events = <<>>
    /\ attached = {}
    /\ cells = InitialCells
    /\ app = [pc |-> "running"]
    /\ sent = 0
    /\ budget = 0
    /\ last = Spawned

WidgetNext ==
    \/ \E v \in SliderValues : SliderSetMin(v)
    \/ \E v \in SliderValues : SliderSetMax(v)
    \/ \E v \in SliderValues : SliderSetStep(v)
    \/ \E v \in SetValues : SliderSetValue(v)
    \/ SliderMouse("mouse_in", "Hovered")
    \/ SliderMouse("mouse_up", "Hovered")
    \/ SliderMouse("mouse_out", "Passive")
    \/ \E q \in NormNums : SliderMouseDown(q)
    \/ \E q \in NormNums : SliderMouseMove(q)

WidgetSpec == WidgetInit /\ [][WidgetNext]_vars

WidgetTypeOK ==
    /\ slider.ui_state \in {"Passive", "Hovered", "Active"}
    /\ slider.min \in SliderValues \cup {10}
    /\ slider.max \in SliderValues \cup {10}
    /\ slider.step \in SliderValues \cup {1}
    /\ slider.value \in Int
    /\ Len(slider.updated) <= 1

(***************************************************************************)
(* Steps of the worker, told by what they do to the channels.              *)
(***************************************************************************)
\* the worker takes the head of the command channel
CmdConsumed == cmd_q # <<>> /\ sent' = sent /\ cmd_q' # cmd_q
\* the worker takes the head of the hardware event channel
CamConsumed == cam_q # <<>> /\ budget' = budget /\ cam_q' # cam_q
\* the worker takes a hotplug notification
HotConsumed == hot_q' < hot_q

\* the Connect and Disconnect events of the outbound stream, in order
ConnDisc(evs) ==
    SelectSeq(evs, LAMBDA e : e.kind \in {"Connect", "Disconnect"})

\* the worker's latest step applied a parameter command to the open session
Applied ==
    /\ wpc = "session"
    /\ last.act = "command"
    /\ last.cmd.kind \in ParamKinds

(***************************************************************************)
(* Claims.                                                                 *)
(***************************************************************************)
\* C1: in the outbound stream Connect and Disconnect events alternate,
\* starting with Connect; a session is open exactly when the last of them
\* is a Connect (one Connect per successful open, one Disconnect per
\* session ended).
C1_Alternate ==
    LET cd == ConnDisc(events)
    IN /\ \A i \in 1..Len(cd) :
            cd[i].kind = IF i % 2 = 1 THEN "Connect" ELSE "Disconnect"
       /\ wpc = "session" => Len(cd) % 2 = 1
       /\ wpc \in {"start", "enumerated", "sent", "idle"} => Len(cd) % 2 = 0

\* two sessions have been opened and ended
C1_Witness == Len(ConnDisc(events)) >= 4

\* C2: every Image or StillImage event of the outbound stream has a Connect
\* before it, and the latest Connect or Disconnect before it is a Connect.
C2_FramesInSession ==
    \A i \in 1..Len(events) :
        events[i].kind \in {"Image", "StillImage"} =>
            LET cd == ConnDisc(SubSeq(events, 1, i))
            IN cd # <<>> /\ cd[Len(cd)].kind = "Connect"

\* a frame was sent in a second session
C2_Witness ==
    \E i \in 1..Len(events) :
        /\ events[i].kind \in {"Image", "StillImage"}
        /\ Len(ConnDisc(SubSeq(events, 1, i))) = 3

\* C3 as claimed: a parameter command applied to the open session was sent
\* after every Disconnect event sent so far.
C3_Original == Applied => last.cmd.epoch >= CountKind(events, "Disconnect")

\* C3, amended: a parameter command applied to the open session was sent
\* after the Connect command that opened the session.
C3_BehindConnect == Applied => last.cmd.n > session.by

\* a command sent before a Disconnect is applied to the session after it
C3_Witness ==
    /\ Applied
    /\ last.cmd.epoch < CountKind(events, "Disconnect")
    /\ last.calls # <<>>

\* C4: when the worker takes a parameter command or Snap while no session
\* is open, it makes no hardware call, sends no event, stays session-less
\* and does not keep the command in the queue.
C4_DroppedWithoutSession ==
    [][ (CmdConsumed /\ wpc = "idle" /\ Head(cmd_q).kind # "Connect") =>
            /\ last'.cmd = Head(cmd_q)
            /\ last'.calls = <<>>
            /\ events' = events
            /\ wpc' = "idle"
            /\ session' = NoSession
            /\ \A i \in 1..Len(cmd_q') : cmd_q'[i].n # Head(cmd_q).n ]_vars

\* a Snap was dropped after a session had ended
C4_Witness ==
    /\ wpc = "idle"
    /\ last.act = "command"
    /\ last.cmd.kind = "Snap"
    /\ CountKind(events, "Disconnect") >= 1

\* C5: when the worker takes a Connect while no session is open and the
\* open fails, it sends no event and stays session-less, ready for the next
\* command; when the open succeeds it sends Connect and opens the session.
C5_OpenFailure ==
    [][ (CmdConsumed /\ wpc = "idle" /\ Head(cmd_q).kind = "Connect") =>
            IF Open(Head(cmd_q).id, attached) = None
            THEN /\ events' = events
                 /\ wpc' = "idle"
                 /\ session' = NoSession
                 /\ cmd_q' = Tail(cmd_q)
            ELSE /\ events' = Append(events, EvConnect)
                 /\ wpc' = "session"
                 /\ session'.open
                 /\ cmd_q' = Tail(cmd_q) ]_vars

\* the first Connect (command 5) failed to open, the second (command 10)
\* opened the session
C5_Witness ==
    /\ wpc = "session"
    /\ session.by = 10
    /\ CountKind(events, "Connect") = 1

\* a session is open and a command is waiting in the command channel
CommandWaits == session.open /\ cmd_q # <<>>
\* a session is open and a hotplug notification is waiting
HotplugWaits == session.open /\ hot_q > 0

\* C6: while a session is open, a command or hotplug notification that has
\* arrived is eventually handled even if the hardware never delivers
\* another event: a command cannot wait in the channel of an open session
\* forever without the worker taking commands, and likewise a hotplug
\* notification.
C6_EventuallyHandled ==
    /\ <>[]CommandWaits => []<><<CmdConsumed>>_vars
    /\ <>[]HotplugWaits => []<><<HotConsumed>>_vars

\* in a session in which the hardware has delivered no event, the worker
\* has handled a hotplug notification and then applied a parameter command
\* written after the session was opened
C6_Witness ==
    /\ wpc = "session"
    /\ cam_q = <<>>
    /\ cmd_q = <<>>
    /\ hot_q = 0
    /\ Len(events) = 3
    /\ events[2] = EvConnect
    /\ events[3].kind = "Hotplug"
    /\ last.act = "command"
    /\ last.cmd.n > session.by + 4
    /\ last.calls # <<>>
    /\ budget = 3

\* the worker's step makes the hardware call Toupcam::open
OpensDevice ==
    /\ last' # last
    /\ \E i \in 1..Len(last'.calls) : last'.calls[i] = "open"

\* C7: when the worker takes a Connect while a session is open, it makes no
\* hardware call, sends no event and leaves the session as it is; and the
\* worker calls open only while no session is open.
C7_SingleSession ==
    [][ /\ (CmdConsumed /\ wpc = "session" /\ Head(cmd_q).kind = "Connect") =>
               /\ session' = session
               /\ events' = events
               /\ wpc' = "session"
               /\ last'.calls = <<>>
               /\ cmd_q' = Tail(cmd_q)
        /\ OpensDevice => ~session.open ]_vars

\* a Connect was taken in a session whose parameters had been set
C7_Witness ==
    /\ wpc = "session"
    /\ last.act = "command"
    /\ last.cmd.kind = "Connect"
    /\ last.cmd.n > session.by
    /\ session.tint = InitialCells.tint

\* C8: the session changes only in steps of the worker; steps of the
\* application (which change the cells or send commands) and steps of the
\* hardware (which attach devices or queue events) never change it.
C8_WorkerOnly ==
    [][ session' # session =>
            /\ last' # last
            /\ UNCHANGED <<cells, sent, app, attached, budget>> ]_vars

\* the application wrote the tint cell during a session: the command is in
\* the channel, the session still has the old tint
C8_Witness ==
    /\ wpc = "session"
    /\ cells.tint = 1200
    /\ session.tint # 1200
    /\ \E i \in 1..Len(cmd_q) :
            cmd_q[i].kind = "SetTint" /\ cmd_q[i].val = 1200

\* C9: when the worker takes the hardware event Disconnected, it sends one
\* Disconnect, releases the session and is session-less; a Connect it takes
\* after that with a successful open sends Connect and opens a new session.
C9_Disconnected ==
    [][ /\ (CamConsumed /\ wpc = "session" /\ Head(cam_q) = "Disconnected") =>
               /\ events' = Append(events, EvDisconnect)
               /\ wpc' = "idle"
               /\ session' = NoSession
               /\ cam_q' = <<>>
        /\ (/\ CmdConsumed /\ wpc = "idle"
            /\ CountKind(events, "Disconnect") >= 1
            /\ Head(cmd_q).kind = "Connect"
            /\ Open(Head(cmd_q).id, attached) # None) =>
               /\ events' = Append(events, EvConnect)
               /\ wpc' = "session"
               /\ session' = Configured(Open(Head(cmd_q).id, attached)[1],
                                        Head(cmd_q).n) ]_vars

\* a new session was opened after a Disconnect
C9_Witness ==
    /\ wpc = "session"
    /\ events[Len(events)].kind = "Connect"
    /\ CountKind(events, "Disconnect") = 1

\* C10: when the worker takes a hotplug notification, it sends one Hotplug
\* event with the devices attached at that moment and changes nothing else:
\* the session, its parameters and the worker's position stay; a Hotplug
\* event is sent only at startup and for a notification.
C10_Hotplug ==
    [][ /\ HotConsumed =>
               /\ hot_q' = hot_q - 1
               /\ events' = Append(events, EvHotplug(Enumerate(attached)))
               /\ session' = session
               /\ wpc' = wpc
               /\ UNCHANGED <<cmd_q, cam_q>>
        /\ CountKind(events', "Hotplug") # CountKind(events, "Hotplug") =>
               /\ HotConsumed \/ wpc = "enumerated"
               /\ CountKind(events', "Hotplug")
                     = CountKind(events, "Hotplug") + 1 ]_vars

\* a notification was handled during a session, and the list sent differs
\* from the one sent at startup
C10_Witness ==
    /\ wpc = "session"
    /\ last.act = "hotplug"
    /\ events[Len(events)].kind = "Hotplug"
    /\ events[Len(events)].list # events[1].list

\* C11: as long as the outbound stream is empty the worker is at its start
\* (it has at most called enumerate) and every command sent is still in
\* the command channel; the worker's first step calls enumerate and holds
\* the list of the devices attached at that moment; the step that sends
\* the first event sends Hotplug with that list and takes no command (so
\* the first event is never Connect).
C11_StartupHotplug ==
    [][ events = <<>> =>
            /\ wpc \in {"start", "enumerated"}
            /\ Len(cmd_q) = sent
            /\ (wpc = "start" /\ wpc' # "start") =>
                  /\ wpc' = "enumerated"
                  /\ last'.calls = <<"enumerate">>
                  /\ last'.list = Enumerate(attached)
            /\ (wpc = "enumerated" /\ wpc' = "enumerated") =>
                  last'.list = last.list
            /\ events' # <<>> =>
                  /\ wpc = "enumerated"
                  /\ events' = <<EvHotplug(last.list)>>
                  /\ cmd_q' = cmd_q ]_vars

\* the stream started with the list of two devices, one of them attached
\* before the worker ran, and a Connect followed
C11_Witness ==
    /\ Len(events) >= 2
    /\ events[1] = EvHotplug(<<"X", "Y">>)
    /\ events[2] = EvConnect

\* the field of the session a parameter command writes
ParamField ==
    [SetExposureTime |-> "exposure_time", SetExposureGain |-> "exposure_gain",
     SetColorTemperature |-> "temperature", SetTint |-> "tint"]

\* the parameters whose command the call of Camera::connect in progress
\* has still to send: none outside such a call
Unsent(a) ==
    IF a.pc = "connect"
    THEN {ParamOrder[k] : k \in a.k..Len(ParamOrder)}
    ELSE {}

\* C12: in a session the worker takes the commands one per step in the
\* order they were sent (the channel holds them in sending order and the
\* worker takes its head); a parameter command writes its value to its own
\* hardware parameter and leaves the others as they are; and whenever the
\* queue of an open session has been emptied, every hardware parameter
\* holds the value of the last command sent for it, which is the value of
\* its cell (but for a parameter whose command a call of Camera::connect
\* that is under way has not sent yet).
C12_InOrderLastWins ==
    [][ /\ \A i \in 1..Len(cmd_q) : \A j \in 1..Len(cmd_q) :
                i < j => cmd_q[i].n < cmd_q[j].n
        /\ (CmdConsumed /\ wpc = "session") =>
              /\ cmd_q' = Tail(cmd_q)
              /\ last'.cmd = Head(cmd_q)
              /\ \A p \in Params :
                    session'[p] =
                        IF /\ Head(cmd_q).kind \in DOMAIN ParamField
                           /\ ParamField[Head(cmd_q).kind] = p
                        THEN Head(cmd_q).val
                        ELSE session[p]
        /\ (wpc' = "session" /\ cmd_q' = <<>>) =>
              \A p \in Params \ Unsent(app') : session'[p] = cells'[p] ]_vars

\* two cells were written while the session was open, and the queue has
\* been emptied
C12_Witness ==
    /\ wpc = "session"
    /\ cmd_q = <<>>
    /\ last.act = "command"
    /\ last.cmd.n > session.by + 4
    /\ session.exposure_time = 5000
    /\ session.tint = 1200
    /\ session.temperature = 6503

\* the hardware events the worker knows
KnownCamEvents == {"Image", "StillImage", "Disconnected", "Exposure"}

\* C13: when the worker takes a hardware event outside the known four, it
\* terminates without sending an event; and a terminated worker stays
\* terminated and takes no further step, so it sends nothing further.
C13_UnknownEventFatal ==
    [][ /\ (CamConsumed /\ Head(cam_q) \notin KnownCamEvents) =>
              /\ wpc' = "dead"
              /\ events' = events
        /\ wpc = "dead" =>
              /\ wpc' = "dead"
              /\ last' = last
              /\ session' = NoSession ]_vars

\* the worker terminated on the event Error after it had sent a frame, and
\* a command sent since waits in the channel
C13_Witness ==
    /\ wpc = "dead"
    /\ last.act = "Error"
    /\ CountKind(events, "Image") = 1
    /\ cmd_q # <<>>

\* a call of the application on Camera: connect, a cell write or snap
AppCalls ==
    /\ app.pc = "running"
    /\ budget' # budget
    /\ UNCHANGED <<attached, cam_q>>

\* C14: a send on the command channel after its receiver is gone is
\* discarded without making the sender fail: a call of the application
\* made after the worker has terminated leaves the application running and
\* queues nothing.
C14_SendFailureDiscarded ==
    [][ (AppCalls /\ SendFails) =>
            /\ app'.pc = "running"
            /\ UNCHANGED <<cmd_q, sent>> ]_vars

\* C15: the worker calls open only in the step that takes a Connect command
\* while no session is open, and a session comes to be open only in such a
\* step, opened by that Connect; no other step (a hotplug notification, a
\* parameter command, a Snap) opens a device, also after a Disconnect.
C15_NoAutoReconnect ==
    [][ /\ OpensDevice =>
              /\ CmdConsumed
              /\ Head(cmd_q).kind = "Connect"
              /\ wpc = "idle"
        /\ (~session.open /\ session'.open) =>
              /\ CmdConsumed
              /\ Head(cmd_q).kind = "Connect"
              /\ session'.by = Head(cmd_q).n ]_vars

\* after a Disconnect the worker has handled a hotplug notification with a
\* device attached and is still without a session
C15_Witness ==
    /\ wpc = "idle"
    /\ CountKind(events, "Disconnect") >= 1
    /\ last.act = "hotplug"
    /\ attached # {}
    /\ events[Len(events)].list # <<>>

\* the value the latest write stored: validator(fn(old value))
Written == validator(prop.validator, Writer(prop.op.arg, prop.op.old))

\* the observer invocations of the latest call that went to observer id
LogOf(id) == SelectSeq(prop.log, LAMBDA e : e.obs = id)

\* C16: when a write returns, the stored value is validator(fn(old value))
\* and the observer invocations it made are exactly one for each observer
\* registered when it was called, in registration order, each with the
\* stored value.
C16_WriteNotifies ==
    (prop # NoProperty /\ prop.op.kind = "write" /\ prop.fault = "none") =>
        /\ prop.value = Written
        /\ prop.log = [i \in 1..Len(prop.op.before) |->
                          [obs |-> prop.op.before[i].id, val |-> Written]]

\* a write by a function of the old value, with three observers
\* registered, whose result the validator changed
C16_Witness ==
    /\ prop # NoProperty
    /\ prop.op.kind = "write"
    /\ prop.fault = "none"
    /\ prop.op.arg.kind = "add"
    /\ Len(prop.op.before) = 3
    /\ Writer(prop.op.arg, prop.op.old) # prop.value
    /\ Len(prop.log) = 3

\* C17: when observe(fn) returns, the value is as before, fn has been
\* invoked exactly once, first and with that value, no observer registered
\* before the call has been invoked, and fn is the last of the observer
\* list, behind the earlier observers in their old order.
C17_ObserveImmediate ==
    (prop # NoProperty /\ prop.op.kind = "observe" /\ prop.fault = "none") =>
        LET fn == prop.observers[Len(prop.observers)]
        IN /\ prop.value = prop.op.old
           /\ fn.does = prop.op.arg
           /\ LogOf(fn.id) = <<[obs |-> fn.id, val |-> prop.op.old]>>
           /\ prop.log[1].obs = fn.id
           /\ \A i \in 1..Len(prop.op.before) :
                 LogOf(prop.op.before[i].id) = <<>>
           /\ SubSeq(prop.observers, 1, Len(prop.op.before)) = prop.op.before

\* an observer was registered behind two others on a cell whose value had
\* been written
C17_Witness ==
    /\ prop # NoProperty
    /\ prop.op.kind = "observe"
    /\ prop.fault = "none"
    /\ Len(prop.op.before) = 2
    /\ Len(prop.observers) = 3
    /\ prop.value = 1

\* the latest call is a write whose value made an observer of the given
\* kind call back into the cell
Reentered(does) ==
    /\ prop # NoProperty
    /\ prop.op.kind = "write"
    /\ Written = Trigger
    /\ \E i \in 1..Len(prop.op.before) : prop.op.before[i].does = does

\* the observers registered by the latest call
Registered ==
    {prop.observers[i] : i \in Len(prop.op.before) + 1..Len(prop.observers)}

\* C18: when an observer registers a new observer on its cell from inside
\* its callback during a write, the registration does not fail; and when
\* the write returns, the new observer is on the observer list and the
\* write's notification has not gone to it (it has only been called once,
\* by its own observe).
C18_RegisterDuringWrite ==
    Reentered("observe") =>
        /\ prop.fault # "observe"
        /\ prop.fault = "none" =>
              /\ Registered # {}
              /\ \A o \in Registered : Len(LogOf(o.id)) = 1

\* C19: when an observer writes to its cell from inside its callback
\* during a write, the inner write does not fail; and when the outer write
\* returns, every observer has first been called with the outer write's
\* value and only then with the inner write's value.
C19_WriteDuringWrite ==
    Reentered("set") =>
        /\ prop.fault # "write"
        /\ prop.fault = "none" =>
              LET n == Len(prop.op.before)
                  inner == validator(prop.validator, ReentrantValue)
              IN /\ Len(prop.log) >= 2 * n
                 /\ \A i \in 1..n :
                       /\ prop.log[i] = [obs |-> prop.op.before[i].id,
                                         val |-> Written]
                       /\ prop.log[n + i] = [obs |-> prop.op.before[i].id,
                                             val |-> inner]

\* C20: a read returns the stored value, leaves the value and the
\* observers as they are and invokes no observer; and a read made by an
\* observer from inside its callback during a write does not fail and
\* returns the value just written.
C20_ReadReentrant ==
    /\ (prop # NoProperty /\ prop.op.kind = "read") =>
          /\ prop.fault = "none"
          /\ prop.value = prop.op.old
          /\ prop.got = <<prop.op.old>>
          /\ prop.log = <<>>
          /\ prop.observers = prop.op.before
    /\ Reentered("get") =>
          /\ prop.fault # "read"
          /\ prop.fault = "none" =>
                /\ prop.got # <<>>
                /\ \A i \in 1..Len(prop.got) : prop.got[i] = Written

\* the latest call is a write on a cell with an observer installed by
\* notify whose channel has lost its receiver
DeadNotify ==
    /\ prop # NoProperty
    /\ prop.op.kind = "write"
    /\ ~prop.rx
    /\ \E i \in 1..Len(prop.op.before) : prop.op.before[i].does = "notify"

\* C21: a write on a cell with a notify observer whose channel has lost
\* its receiver sends nothing and, when no observer calls back into the
\* cell, returns with the value stored as validator(fn(old value)) and
\* with every observer, those registered behind the dead one included,
\* called once, in order, with the stored value; this holds for every
\* such write, the first and the later ones.
C21_DeadChannelSwallowed ==
    DeadNotify =>
        /\ prop.chan = <<>>
        /\ (\A i \in 1..Len(prop.op.before) :
               prop.op.before[i].does \in {"plain", "notify"}
                   \/ Written # Trigger) =>
              /\ prop.fault = "none"
              /\ prop.value = Written
              /\ prop.log = [i \in 1..Len(prop.op.before) |->
                                [obs |-> prop.op.before[i].id,
                                 val |-> Written]]

\* a write, not the first since the receiver went away, on a cell whose
\* dead notify observer is registered in front of two others
C21_Witness ==
    /\ DeadNotify
    /\ Len(prop.op.before) = 3
    /\ prop.op.before[1].does = "notify"
    /\ prop.op.before[2].does # "notify"
    /\ prop.op.old # 0 /\ prop.op.old # 5
    /\ prop.value # prop.op.old
    /\ Len(prop.log) = 3

\* the observer invocations of the latest call on the bound cells that
\* went to observer id
NetLogOf(id) == SelectSeq(net.log, LAMBDA e : e.obs = id)

\* the observers registered by calls of observe on cellA
OnCellA == {id \in 1..Len(net.reg) : net.reg[id].on = "cellA"}

\* cellA's node is of the given kind and leads to other
PointsAt(kind, other) ==
    /\ net # NoNetwork
    /\ net.node["cellA"].kind = kind
    /\ net.node["cellA"].property = other

\* C22: while cellA is linked to other, cellA reads as other does, a get
\* on cellA returns other's value, a write through cellA stores
\* validator_other(fn(old value of other)) in other, and, for a cellA that
\* held its own value when it was linked, every observer registered on
\* cellA is called exactly once, with the stored value, by every write to
\* other, made through cellA or on other itself.
C22_LinkForwards ==
    \A other \in LinkTargets :
        PointsAt("Linked", other) =>
            /\ ObservableRead(net, "cellA") = ObservableRead(net, other)
            /\ (net.op.kind = "read" /\ net.op.cell = "cellA") =>
                  net.got = <<net.node[other].value>>
            /\ (net.op.kind = "write" /\ net.op.cell = "cellA") =>
                  net.node[other].value =
                      NetValidator(other, Writer(net.op.arg, net.op.old))
            /\ (net.op.kind = "write" /\ net.op.cell \in {"cellA", other}
                    /\ net.points = 1) =>
                  \A id \in OnCellA :
                      NetLogOf(id) = <<[obs |-> id,
                                        val |-> net.node[other].value]>>

\* cellA, with two observers registered while it held its own value, was
\* linked to the cell with the limiting validator, and a write made on
\* that cell stored a value the validator changed
C22_Witness ==
    /\ PointsAt("Linked", "other2")
    /\ net.points = 1
    /\ net.op.kind = "write"
    /\ net.op.cell = "other2"
    /\ net.op.arg.k = 1200
    /\ net.node["other2"].value = TintMax
    /\ Cardinality({id \in OnCellA : net.reg[id].at = 0}) = 2
    /\ Len(net.log) >= 2

\* C23: after cellA has been re-pointed from a Linked or Derived node, a
\* write calls the observers registered on cellA exactly when it is a
\* write to the cell cellA now leads to.
C23_RepointMigrates ==
    (net # NoNetwork /\ net.node["cellA"].kind # "Root" /\ net.points >= 2
        /\ net.op.kind = "write") =>
        \A id \in OnCellA :
            Len(NetLogOf(id)) > 0
                <=> net.wrote = <<net.node["cellA"].property>>

\* C24: a write through cellA derived from a white balance stores in the
\* target validator_target of the old target value with its tint replaced
\* by fn(old tint): the temperature is retained.
C24_DerivedWrite ==
    \A t \in DeriveTargets :
        (PointsAt("Derived", t) /\ net.op.kind = "write"
            /\ net.op.cell = "cellA") =>
            net.node[t].value =
                NetValidator(t,
                    [temperature |-> net.op.old.temperature,
                     tint |-> Writer(net.op.arg, net.op.old.tint)])

\* with the target at {temperature: 6503, tint: 1000}, set(1200) on the
\* derived cell left it at {temperature: 6503, tint: 1200}
C24_Witness ==
    /\ PointsAt("Derived", "wb1")
    /\ net.op.kind = "write"
    /\ net.op.cell = "cellA"
    /\ net.op.arg = [kind |-> "const", k |-> 1200]
    /\ net.op.old = [temperature |-> 6503, tint |-> 1000]
    /\ net.node["wb1"].value = [temperature |-> 6503, tint |-> 1200]

\* C25: while cellA is derived from a target, it reads as from_target of
\* the target's current value and a get returns that; and a write through
\* cellA runs Root::write once, on the target, and calls every observer of
\* the target exactly once, in order.
C25_DerivedStateless ==
    \A t \in DeriveTargets :
        PointsAt("Derived", t) =>
            /\ ObservableRead(net, "cellA") = net.node[t].value.tint
            /\ (net.op.kind = "read" /\ net.op.cell = "cellA") =>
                  net.got = <<net.node[t].value.tint>>
            /\ (net.op.kind = "write" /\ net.op.cell = "cellA") =>
                  /\ net.wrote = <<t>>
                  /\ Len(net.log) = Len(net.node[t].observers)
                  /\ \A i \in 1..Len(net.log) :
                        net.log[i].obs = net.node[t].observers[i].id

\* the target was written directly, and then a write through the derived
\* cell changed the tint and called the target's two observers, one
\* registered on the target and one on the derived cell
C25_Witness ==
    /\ PointsAt("Derived", "wb1")
    /\ net.op.kind = "write"
    /\ net.op.cell = "cellA"
    /\ net.op.old = [temperature |-> 5000, tint |-> 1200]
    /\ net.node["wb1"].value = [temperature |-> 5000, tint |-> 1000]
    /\ Len(net.node["wb1"].observers) = 2
    /\ \E i, j \in 1..2 : /\ net.reg[net.node["wb1"].observers[i].id].on
                                = "wb1"
                          /\ net.reg[net.node["wb1"].observers[j].id].on
                                = "cellA"
    /\ Len(net.log) = 2

\* main is in the arm of the event kind, with part of it still to do
Handling(kind) ==
    /\ app.pc = "running"
    /\ app.rd >= 1
    /\ events[app.rd].kind = kind
    /\ app.todo # <<>>

\* C26: while main's event loop handles CameraConnected, and with it
\* pushes the four values the device reported into the sliders' cells, no
\* command is sent to the worker.
C26_NoEcho ==
    [][ Handling("CameraConnected") =>
            (sent' = sent /\ app'.pc = "running") ]_vars

\* the frames the worker has emitted
Frames ==
    {events[i].data : i \in {j \in 1..Len(events) :
                                events[j].kind \in {"Image", "StillImage"}}}

\* buffer out is buffer in with every byte at index 4k+3 (counted from 0)
\* set to 255 and nothing else changed
Opaque(in, out) ==
    /\ Len(out) = Len(in)
    /\ \A i \in 1..Len(in) : out[i] = IF i % 4 = 0 THEN 255 ELSE in[i]

\* set_alpha(raw, 255) for every raw buffer, and set_alpha of that
Processed == [raw \in RawFrames |-> set_alpha(raw, 255)]
ProcessedTwice == [raw \in RawFrames |-> set_alpha(Processed[raw], 255)]

\* C27: for every raw buffer whose length is a multiple of 16, set_alpha
\* with alpha 255 returns a buffer of the same length with every byte at
\* index 4k+3 equal to 255 and every other byte unchanged; and every Image
\* and StillImage the worker has emitted is such a result of a raw buffer.
C27_AlphaSet ==
    /\ \A raw \in RawFrames :
          ~SetAlphaPanics(raw) => Opaque(raw, Processed[raw])
    /\ \A out \in Frames : \E raw \in RawFrames : Opaque(raw, out)

\* the worker has emitted an Image and a StillImage, one of one vector and
\* one of two
C27_Witness ==
    /\ \E i, j \in 1..Len(events) :
          /\ events[i].kind = "Image"
          /\ events[j].kind = "StillImage"
          /\ Len(events[i].data) # Len(events[j].data)
    /\ \E out \in Frames : Len(out) = 32 /\ out[20] = 255 /\ out[19] = 7

\* C28: set_alpha applied to its own result returns it unchanged, for
\* every raw buffer whose length is a multiple of 16 and for every frame
\* the worker has emitted.
C28_AlphaIdempotent ==
    /\ \A raw \in RawFrames :
          ~SetAlphaPanics(raw) => ProcessedTwice[raw] = Processed[raw]
    /\ \A out \in Frames :
          \E raw \in RawFrames :
              out = Processed[raw] /\ ProcessedTwice[raw] = out

\* the worker has emitted two different frames
C28_Witness == Cardinality(Frames) = 2

\* C29: in every state of the slider minimum <= current <= maximum,
\* maximum >= minimum and step > 0.
C29_SliderInvariant ==
    slider # NoSlider =>
        /\ slider.min <= slider.value
        /\ slider.value <= slider.max
        /\ slider.max >= slider.min
        /\ slider.step > 0

\* the value is of the form minimum + n * step
OnGrid == (slider.value - slider.min) % slider.step = 0

\* C30: after set_value(v) with v above the maximum the value is the
\* maximum; after set_value(v) with v not above the maximum the value is
\* of the form minimum + n * step and is at most half a step away from v
\* clamped to [minimum, maximum]; and after a mouse move that set the
\* value, the value is of the form minimum + n * step.
C30_ClampThenSnap ==
    /\ (slider # NoSlider /\ slider.op.kind = "set_value") =>
          LET v == slider.op.arg
              clamped == IF v < slider.min THEN slider.min ELSE v
              away == IF slider.value < clamped
                      THEN clamped - slider.value
                      ELSE slider.value - clamped
          IN IF v > slider.max THEN slider.value = slider.max
             ELSE OnGrid /\ 2 * away <= slider.step
    /\ (slider # NoSlider
          /\ slider.op.kind \in {"mouse_down", "mouse_move"}
          /\ slider.updated # <<>>) => OnGrid

\* the frame events of the outbound stream, in order
FrameKinds(evs) ==
    SelectSeq(evs, LAMBDA e : e.kind \in {"Image", "StillImage"})

\* C31: during a session the worker takes the hardware events oldest first;
\* the step that takes a new-frame event appends exactly one Image event to
\* the outbound stream and the step that takes a still-ready event exactly
\* one StillImage event, the session goes on, and no other step adds a
\* frame event: the frame events appear in the order the hardware events
\* were received, none dropped.
C31_FramesInOrder ==
    [][ /\ (/\ CamConsumed /\ wpc = "session"
            /\ Head(cam_q) \in {"Image", "StillImage"}) =>
               /\ cam_q' = Tail(cam_q)
               /\ Len(events') = Len(events) + 1
               /\ SubSeq(events', 1, Len(events)) = events
               /\ events'[Len(events')].kind = Head(cam_q)
               /\ wpc' = "session"
               /\ session' = session
        /\ FrameKinds(events') # FrameKinds(events) =>
               /\ CamConsumed
               /\ Head(cam_q) \in {"Image", "StillImage"} ]_vars

\* a still frame and then two preview frames were sent in one session
\* while two more hardware events were waiting
C31_Witness ==
    /\ wpc = "session"
    /\ Len(events) >= 5
    /\ events[Len(events) - 2].kind = "StillImage"
    /\ events[Len(events) - 1].kind = "Image"
    /\ events[Len(events)].kind = "Image"
    /\ events[Len(events)].data # events[Len(events) - 1].data

\* C32: the step in which the worker takes the hardware event
\* exposure-changed during a session sends no event, makes no hardware
\* call, leaves every parameter of the session and the command channel as
\* they are, and the session stays open.
C32_ExposureIgnored ==
    [][ (CamConsumed /\ wpc = "session" /\ Head(cam_q) = "Exposure") =>
            /\ events' = events
            /\ session' = session
            /\ wpc' = "session"
            /\ last'.calls = <<>>
            /\ cam_q' = Tail(cam_q)
            /\ cmd_q' = cmd_q ]_vars

\* an exposure-changed event was taken in a session whose parameters had
\* been set, with a frame event waiting behind it
C32_Witness ==
    /\ wpc = "session"
    /\ last.act = "Exposure"
    /\ session.tint = InitialCells.tint
    /\ cam_q # <<>>
    /\ Head(cam_q) = "Image"

\* C34: the step in which the worker applies SetColorTemperature to the
\* open session sets the hardware temperature to the commanded value and
\* leaves tint, exposure time and gain as they were; the step that applies
\* SetTint sets the tint and leaves temperature, exposure time and gain.
C34_WhiteBalanceFields ==
    [][ /\ (/\ CmdConsumed /\ wpc = "session"
            /\ Head(cmd_q).kind = "SetColorTemperature") =>
               /\ session'.temperature = Head(cmd_q).val
               /\ session'.tint = session.tint
               /\ session'.exposure_time = session.exposure_time
               /\ session'.exposure_gain = session.exposure_gain
               /\ session'.open
        /\ (/\ CmdConsumed /\ wpc = "session"
            /\ Head(cmd_q).kind = "SetTint") =>
               /\ session'.tint = Head(cmd_q).val
               /\ session'.temperature = session.temperature
               /\ session'.exposure_time = session.exposure_time
               /\ session'.exposure_gain = session.exposure_gain
               /\ session'.open ]_vars

\* SetTint was applied with a new value to a session whose temperature,
\* exposure time and gain differ from the device's defaults
C34_Witness ==
    /\ Applied
    /\ last.cmd.kind = "SetTint"
    /\ session.tint = 1200
    /\ session.temperature = InitialCells.temperature
    /\ session.temperature # DeviceDefault.temperature
    /\ session.exposure_time # DeviceDefault.exposure_time

\* the step sends a Connect command: Camera::connect is called
ConnectCalled ==
    \E i \in 1..Len(cmd_q') : cmd_q'[i].kind = "Connect" /\ cmd_q'[i].n > sent

\* the step appends exactly the command c to the command channel
Appends(c) ==
    /\ cmd_q' = Append(cmd_q, c)
    /\ sent' = sent + 1

\* C33: Camera::connect appends to the command channel Connect and then,
\* send by send, the commands for exposure time, gain, colour temperature
\* and tint, in that order and numbered on from the Connect, carrying the
\* values the cells hold at the call; nothing else is sent and no cell
\* changes before the call is through, and it ends short only when the
\* worker is gone.  When the worker has opened a session with that Connect
\* and, the session still open, has taken the fourth of them, the
\* session's four parameters are the values the cells held at the call.
\* When the open of that Connect failed, each of the four is taken without
\* a hardware call, without an event and without a session, and is not
\* kept.
C33_ConnectSetsParameters ==
    [][ /\ ConnectCalled =>
               /\ app.pc = "running"
               /\ Len(cmd_q') = Len(cmd_q) + 1
               /\ SubSeq(cmd_q', 1, Len(cmd_q)) = cmd_q
               /\ cmd_q'[Len(cmd_q')].kind = "Connect"
               /\ cmd_q'[Len(cmd_q')].n = sent + 1
               /\ sent' = sent + 1
               /\ app' = [pc |-> "connect", k |-> 1]
        /\ app.pc = "connect" =>
               /\ cells' = cells
               /\ app' # app =>
                     \/ /\ SendFails
                        /\ app'.pc = "panicked"
                        /\ cmd_q' = cmd_q /\ sent' = sent
                     \/ /\ ~SendFails
                        /\ \E c \in {cmd_q'[i] : i \in 1..Len(cmd_q')} :
                              /\ Appends(c)
                              /\ c.kind = ParamKind[ParamOrder[app.k]]
                              /\ c.val = cells[ParamOrder[app.k]]
                              /\ c.at = cells
                              /\ c.n = sent + 1
                        /\ app' = IF app.k = 4 THEN AppIdle
                                  ELSE [pc |-> "connect", k |-> app.k + 1]
               /\ app' = app => sent' = sent
        /\ (/\ CmdConsumed /\ wpc' = "session"
            /\ last'.cmd.n = session'.by + 4) =>
               \A p \in Params : session'[p] = last'.cmd.at[p]
        /\ (/\ CmdConsumed /\ last.failed > 0
            /\ Head(cmd_q).n \in (last.failed + 1)..(last.failed + 4)) =>
               /\ Head(cmd_q).kind \in ParamKinds
               /\ last'.cmd = Head(cmd_q)
               /\ last'.calls = <<>>
               /\ events' = events
               /\ session' = NoSession
               /\ wpc' = "idle"
               /\ \A i \in 1..Len(cmd_q') : cmd_q'[i].n # Head(cmd_q).n ]_vars

\* the tint cell was written (command 5), the open of the first Connect
\* (command 6) failed and its four commands were dropped; the second
\* Connect (command 11) opened the session, and the worker has taken its
\* fourth parameter command (command 15)
C33_Witness ==
    /\ Applied
    /\ session.by = 11
    /\ last.cmd.n = 15
    /\ last.cmd.at.tint = 1200
    /\ CountKind(events, "Connect") = 1
    /\ CountKind(events, "Disconnect") = 0

\* the observers installed by propagate among a list of observers
Propagators(observers) ==
    SelectSeq(observers, LAMBDA o : o.does = "propagate")

RECURSIVE Rounds(_, _)
\* k calls of every observer of other, in order, with other's value
Rounds(other, k) ==
    IF k = 0 THEN <<>>
    ELSE [i \in 1..Len(other.observers) |->
             [obs |-> other.observers[i].id, val |-> other.value]]
         \o Rounds(other, k - 1)

\* C35: when propagate(other, map) has returned, other holds
\* validator_other(map(source value)) and each observer of other was called
\* once with it; when a write to a source with one propagate installed has
\* returned, other holds validator_other(map(new source value)) and each
\* observer of other was called exactly once, with that value (with k
\* installed, k times); a write to a source with none leaves other alone.
C35_Propagate ==
    (prop.impl = "core" /\ prop.fault = "none") =>
        LET k == Len(Propagators(prop.op.before))
            mapped == validator(prop.other.validator,
                                PropagateMap(prop.value))
        IN /\ (prop.op.kind = "observe" /\ prop.op.arg = "propagate") =>
                 /\ prop.other.value = mapped
                 /\ prop.other.log = Rounds(prop.other, 1)
           /\ (prop.op.kind = "write" /\ k > 0) =>
                 /\ prop.other.value = mapped
                 /\ prop.other.log = Rounds(prop.other, k)
           /\ (prop.op.kind = "write" /\ k = 0) =>
                 prop.other.log = <<>>

\* a write to a source with a validator and one propagate installed behind
\* another observer has returned; other's validator changed the mapped
\* value, and the write before it had left other with a different value
C35_Witness ==
    /\ prop.impl = "core"
    /\ prop.fault = "none"
    /\ prop.op.kind = "write"
    /\ prop.validator = "clamp"
    /\ Len(Propagators(prop.op.before)) = 1
    /\ prop.op.before[1].does # "propagate"
    /\ PropagateMap(prop.value) > ClampMax
    /\ prop.other.value = ClampMax
    /\ PropagateMap(prop.op.old) < ClampMax

\* the step is cellA.link(other) or cellA.derive(other, ..) on a cellA
\* that holds its own value
RepointsRoot ==
    /\ net'.calls = net.calls + 1
    /\ net'.op.kind \in {"link", "derive"}
    /\ net.node["cellA"].kind = "Root"

\* C37: link(other) and derive(other, ..) on a cell that is a Root call
\* each observer the cell held exactly once, in order, with the target's
\* value (link) or map_from of it (derive), and call no other observer;
\* the target then holds its earlier observers followed by the migrated
\* ones in their order; the target's value is unchanged; and the cell's
\* own value is gone: the cell is the new node and reads the target.
C37_RepointRoot ==
    [][ RepointsRoot =>
          LET t == net'.op.arg
              derive == net'.op.kind = "derive"
              migrated == net.node["cellA"].observers
              shown == IF derive THEN map_from(net.node[t].value)
                       ELSE net.node[t].value
          IN /\ net'.log = [i \in 1..Len(migrated) |->
                               [obs |-> migrated[i].id, val |-> shown]]
             /\ net'.node[t].observers =
                   net.node[t].observers \o
                   [i \in 1..Len(migrated) |->
                       IF derive THEN [migrated[i] EXCEPT !.map = "from"]
                       ELSE migrated[i]]
             /\ net'.node[t].value = net.node[t].value
             /\ net'.wrote = <<>>
             /\ net'.node["cellA"] = IF derive THEN Derived(t) ELSE Linked(t)
             /\ ObservableRead(net', "cellA") = shown
             /\ \A c \in NetCells \ {"cellA", t} :
                   net'.node[c] = net.node[c] ]_vars

\* derive has moved two observers of cellA behind the observer the target
\* already had; cellA's own value differed from the target's tint
C37_Witness ==
    /\ net.op.kind = "derive"
    /\ net.points = 1
    /\ Len(net.log) = 2
    /\ net.log[1].obs < net.log[2].obs
    /\ Len(net.node[net.op.arg].observers) = 3
    /\ net.op.old # net.log[1].val

\* the observers registered on cellA since it was last re-pointed
OnRepointed ==
    {id \in 1..Len(net.reg) :
        net.reg[id].on = "cellA" /\ net.reg[id].at = net.points}

\* C38: while cellA is Derived from a target, every write to the target,
\* made on the target or through cellA, calls each observer registered on
\* the Derived cellA exactly once, with the tint (from_target) of the
\* target's new value, whether or not the write changed the tint.
C38_DerivedObserverFires ==
    (net.op.kind = "write" /\ net.node["cellA"].kind = "Derived"
        /\ net.op.cell \in {"cellA", net.node["cellA"].property}) =>
        \A id \in OnRepointed :
            LET calls == SelectSeq(net.log, LAMBDA e : e.obs = id)
            IN /\ Len(calls) = 1
               /\ calls[1].val =
                     net.node[net.node["cellA"].property].value.tint

\* a write on the target changed its temperature and left its tint as it
\* was, and the observer registered on the Derived cellA was called
C38_Witness ==
    /\ net.op.kind = "write"
    /\ net.node["cellA"].kind = "Derived"
    /\ net.op.cell = net.node["cellA"].property
    /\ net.op.old.tint = net.node[net.op.cell].value.tint
    /\ net.op.old.temperature # net.node[net.op.cell].value.temperature
    /\ OnRepointed # {}
    /\ \E i \in 1..Len(net.log) : net.log[i].obs \in OnRepointed

\* the step is a write to the cell of parameter p: the cell's value
\* changes, or the cell's command is sent outside Camera::connect
WriteStep(p) ==
    /\ budget' # budget
    /\ \/ cells'[p] # cells[p]
       \/ /\ sent' # sent
          /\ ~ConnectCalled
          /\ cmd_q'[Len(cmd_q')].kind = ParamKind[p]

\* C36: when Camera::new has returned and the worker has taken nothing,
\* the command channel starts with one command per cell carrying the
\* cell's initial value, in the order the cells were made, and every other
\* command, so every Connect, is behind them; a write to a cell appends
\* exactly one command, carrying the value written, at the end of the
\* channel (none once the worker and its receiver are gone); and the
\* worker takes each of the four initial commands session-less, with no
\* hardware call and no event.
C36_NotifyStream ==
    [][ /\ wpc \in {"start", "enumerated", "sent"} =>
               /\ Len(cmd_q) >= 4
               /\ \A k \in 1..4 :
                     /\ cmd_q[k].kind = ParamKind[ParamOrder[k]]
                     /\ cmd_q[k].val = InitialCells[ParamOrder[k]]
                     /\ cmd_q[k].n = k
               /\ \A i \in 5..Len(cmd_q) : cmd_q[i].n > 4
        /\ \A i \in 1..Len(cmd_q) :
               cmd_q[i].kind = "Connect" => cmd_q[i].n > 4
        /\ \A p \in Params :
               WriteStep(p) =>
                  IF SendFails THEN cmd_q' = cmd_q /\ sent' = sent
                  ELSE /\ Len(cmd_q') = Len(cmd_q) + 1
                       /\ SubSeq(cmd_q', 1, Len(cmd_q)) = cmd_q
                       /\ cmd_q'[Len(cmd_q')].kind = ParamKind[p]
                       /\ cmd_q'[Len(cmd_q')].val = cells'[p]
                       /\ cmd_q'[Len(cmd_q')].n = sent + 1
                       /\ sent' = sent + 1
        /\ (CmdConsumed /\ Head(cmd_q).n <= 4) =>
               /\ wpc = "idle"
               /\ Head(cmd_q).kind \in ParamKinds
               /\ last'.cmd = Head(cmd_q)
               /\ last'.calls = <<>>
               /\ events' = events
               /\ session' = NoSession
               /\ wpc' = "idle" ]_vars

\* the worker has dropped the fourth initial command; behind it wait the
\* commands of two writes, in the order of the writes, and a Connect
C36_Witness ==
    /\ wpc = "idle"
    /\ last.act = "command"
    /\ last.cmd.n = 4
    /\ last.calls = <<>>
    /\ Len(cmd_q) >= 7
    /\ cmd_q[1].kind = "SetTint" /\ cmd_q[1].val = 1200
    /\ cmd_q[2].kind = "SetExposureTime" /\ cmd_q[2].val = 5000
    /\ cmd_q[3].kind = "Connect"
    /\ cells.tint = 1200

====
